---- MODULE Spec2Model ----
(***************************************************************************)
(* A model of the add-on framework's registration-and-liveness control     *)
(* plane.  Storage objects are records; informer caches (listers) are      *)
(* separate copies of storage that an informer step refreshes; every       *)
(* reconcile pass is one action, translated from its sync function.        *)
(*                                                                         *)
(* Specifications (each leaves the other components' state unchanged):     *)
(*   SpecRegistration - hub registrationAgentDeployController               *)
(*   SpecConfig     - hub addonConfigController (the annotations it merges)  *)
(*   SpecDeployLive - SpecDeploy with the fairness of the work queue        *)
(*   SpecDeploy     - hub addonDeployController (DeployReconciler)         *)
(*   SpecCSRRace    - csrApprovingController with two passes in flight       *)
(*   SpecCSR        - hub csrApprovingController (CSRApprover)             *)
(*   SpecHubLease   - hub leaseController (HubLivenessReconciler)          *)
(*   SpecAddonLease - spoke addonLeaseController (AddonLeaseObserver)      *)
(*   SpecRenewer    - spoke leaseUpdater (LeaseRenewer)                    *)
(*   SpecRenewerCalls - leaseUpdater under any calls of Start and stop     *)
(*   SpecCertManager - spoke certificateManagerController                  *)
(*   SpecCertWorker - the work queue and the one worker of the certificate  *)
(*                    manager, and the root context of the spoke agent      *)
(*   SpecCertWorkerLive - the same without cancellation, worker scheduled  *)
(*                    fairly                                                *)
(*   SpecStatus     - helpers.UpdateAddonStatus called by two reconcilers   *)
(*   SpecGrace      - the grace period and the freshness test of the hub's  *)
(*                    leaseController over the range of the int32 field     *)
(*   SpecCluster    - hub managedClusterController (ManagedClusterReconciler) *)
(*   SpecClusterManagement - hub clusterManagementController               *)
(*   SpecShared     - one add-on under its four writers, scheduled fairly   *)
(*   SpecAnnotatedLease - spoke addonLeaseController, annotation variant    *)
(*   SpecCSRFilter  - CSRApprover event filter on the CSR name             *)
(*   SpecSpoke      - RunSpokeAgent starting the leaseUpdater               *)
(*   SpecProbe      - certificateManager.hasValidHubClientConfig           *)
(***************************************************************************)
EXTENDS Integers, Sequences, FiniteSets, TLC

VARIABLES
    mca,            \* storage: the ManagedClusterAddOn (cluster, add-on)
    mcaCache,       \* hub informer's copy of mca (managedClusterAddonLister)
    managedCluster, \* the ManagedCluster is in the hub lister
    cma,            \* storage: ClusterManagementAddOn: "absent" | "plain" | "configured"
    configCR,       \* the configuration custom resource is in the config lister
    work,           \* storage: the ManifestWork addon-<add-on>-deploy
    workCache,      \* hub informer's view of the labelled works (workLister)
    supplier,       \* what agentAddon.AgentManifests returns: [objs, err]
    csr,            \* storage: the CertificateSigningRequest under reconcile
    inflight,       \* the CSR a concurrent pass has got and not yet acted on
    approveChecks,  \* what each add-on-supplied approve check returns for csr
    now,            \* the wall clock, in seconds
    hubLease,       \* storage: the lease addon-lease of each cluster namespace
    hubLeaseCache,  \* hub informer's copy of hubLease (leaseLister)
    hubAddon,       \* storage: the add-ons of each cluster namespace, with status
    hubAddonCache,  \* hub informer's list of add-on names per namespace (addonLister)
    spokeAddon,     \* storage: the add-ons of the spoke's cluster namespace, with status
    spokeAddonCache,\* the observer's list of add-on names (addonLister)
    agentLease,     \* the agent heartbeat leases the observer's leaseLister shows
    renewerLease,   \* storage: the lease (clusterName, leaseName) the updater renews
    updater,        \* the leaseUpdater and its update routine
    renewals,       \* renewTime of each successful update, in the order issued
    certAddon,      \* storage: the add-on the certificate manager reconciles
    certAddonCache, \* the spoke informer's copy of certAddon (addonLister)
    certConfigMap,  \* the add-on's config map in the configMapLister
    csrControllers, \* the add-ons that have a certificateManager registered
    certSecret,     \* storage: the add-on's identity secret <add-on>-hub-kubeconfig
    rotations,      \* rotation sub-controllers whose context is not cancelled
    loops,          \* the update routines launched by Start whose context is not cancelled
    cancel,         \* leaseUpdater.cancel: the routine it cancels, 0 for nil
    starts,         \* calls of Start so far
    regAddon,       \* storage: the add-on the registration deploy controller reconciles
    regAddonCache,  \* its copy in the controller's lister
    regWork,        \* storage: the ManifestWork addon-<add-on>-registration-agent
    hub,            \* storage on the hub: which of the five registration resources exist
    regEnv,         \* the cluster in the lister, the add-on's bootstrap kubeconfig and its RBAC
    keyAddon,       \* storage: the add-ons of the spoke's cluster namespace, one per queue key
    identityValid,  \* per add-on: hasValidHubClientConfig holds of its identity secret
    certQueue,      \* the keys waiting in the work queue of ClientCertManagerController
    certWorker,     \* the one worker: the key whose sync it runs, and whether that sync is in the poll
    subControllers, \* per add-on: bootstrap and rotation sub-controllers whose context is not cancelled
    registered,     \* the keys of csrControllers
    rootDone,       \* the context given to RunSpokeAgent is cancelled
    stAddon,        \* storage: an add-on whose status two reconcilers update, with its resourceVersion
    stWriter,       \* per reconciler: where its call of UpdateAddonStatus stands
    graceCheck,     \* one evaluation of the hub's freshness test: its inputs and its answer
    mc,             \* storage: the ManagedCluster the managedClusterController reconciles
    mcCache,        \* its copy in the controller's clusterLister
    clusterRBAC,    \* storage: which of the cluster's namespace, ClusterRole and ClusterRoleBinding exist
    cmAddOn,        \* storage: the ClusterManagementAddOn named after the add-on
    cmAddOnCache,   \* its copy in the clusterManagementLister
    shAddon,        \* storage: one ManagedClusterAddOn that the hub controllers and the spoke agent all update
    shCache,        \* its copy in the hub manager's informer and in the spoke agent's informer
    annAddon,       \* storage: the add-ons of the spoke's cluster namespace, with status (annotation variant)
    annListed,      \* the observer's addonLister: per add-on, whether listed and its installNamespace annotation
    annLease,       \* the observer's leaseLister: per add-on, the lease open-cluster-management-addon-<add-on>
    approverAddon,  \* the addonName a CSRApprover was constructed with (<<>> before)
    namedCSR,       \* storage: a CSR with its name and the add-on it was created for
    csrKeys,        \* the approver's work queue: names that passed the event filter
    spokeUpdater,   \* the leaseUpdater the spoke process starts on (cluster, addon-lease)
    spokeLease,     \* storage on the hub: that lease
    spokeCalls,     \* the times of the last two calls of update, in nanoseconds
    spokeNow,       \* the spoke's clock, in nanoseconds since RunSpokeAgent came to start the updater
    annotator,      \* the addonConfigController as constructed, and its add-on's bootstrap answer
    probed,         \* the last call of the validity probe: [agentName, result]
    last            \* the last step: [op, writes, err], with fresh for a pass that reads listers

deployVars == <<mca, mcaCache, managedCluster, cma, configCR, work, workCache, supplier>>
csrVars == <<csr, approveChecks, inflight>>
clockVars == <<now>>
hubLeaseVars == <<hubLease, hubLeaseCache, hubAddon, hubAddonCache>>
addonLeaseVars == <<spokeAddon, spokeAddonCache, agentLease>>
renewerVars == <<renewerLease, updater, renewals>>
certVars == <<certAddon, certAddonCache, certConfigMap, csrControllers, certSecret, rotations>>
probeVars == <<probed>>
configVars == <<annotator>>
callVars == <<loops, cancel, starts>>
regVars == <<regAddon, regAddonCache, regWork, hub, regEnv>>
workerVars == <<keyAddon, identityValid, certQueue, certWorker, subControllers, registered, rootDone>>
statusVars == <<stAddon, stWriter>>
graceVars == <<graceCheck>>
clusterVars == <<mc, mcCache, clusterRBAC>>
clusterManagementVars == <<cmAddOn, cmAddOnCache>>
sharedVars == <<shAddon, shCache>>
annotatedVars == <<annAddon, annListed, annLease>>
filterVars == <<approverAddon, namedCSR, csrKeys>>
spokeVars == <<spokeUpdater, spokeLease, spokeCalls, spokeNow>>
vars == <<deployVars, csrVars, clockVars, hubLeaseVars, addonLeaseVars, renewerVars, certVars, probeVars, configVars, callVars, regVars, workerVars, statusVars, graceVars, clusterVars, clusterManagementVars, sharedVars, annotatedVars, filterVars, spokeVars, last>>

---------------------------------------------------------------------------
(* Bounds *)

\* longest list of objects the manifest supplier returns
MaxManifests == 2
\* resource versions of the add-on object run from 0 to MaxRV
MaxRV == 4
\* most conditions a CSR carries
MaxConditions == 2
\* most add-on-supplied approve checks configured
MaxChecks == 2
\* the updater's clock runs from 0 to MaxTime
MaxTime == 11
\* most rotation sub-controllers running at once
MaxRotations == 2
\* most calls of Start on one leaseUpdater
MaxStarts == 3
\* the nanoseconds the spoke process is followed for
MaxSpokeNanos == 160

---------------------------------------------------------------------------
(* Shared shapes *)

Objects == {"cm", "sa"}

ObjectLists == UNION {[1..n -> Objects] : n \in 0..MaxManifests}

\* AgentManifests returns a list of objects, or an error with no or some objects
SupplierResults ==
    {[objs |-> objs, err |-> FALSE] : objs \in ObjectLists}
        \cup {[objs |-> <<>>, err |-> TRUE], [objs |-> <<"cm">>, err |-> TRUE]}

NoAnnotations == [k \in {} |-> ""]

NoAddon(rv) ==
    [exists |-> FALSE, deleting |-> FALSE, finalizers |-> <<>>,
     annotations |-> NoAnnotations, rv |-> rv]

NoWork ==
    [exists |-> FALSE, payload |-> <<>>, label |-> "", owner |-> FALSE,
     deleting |-> FALSE, finalizer |-> FALSE]

\* a step of the environment: no reconcile ran
EnvStep == [op |-> "env", writes |-> {}, err |-> FALSE]

HasFinalizer(finalizers, f) == \E i \in 1..Len(finalizers) : finalizers[i] = f

WithoutFinalizer(finalizers, f) == SelectSeq(finalizers, LAMBDA x : x # f)

---------------------------------------------------------------------------
(* The storage substrate: resource-versioned update and finalizer-gated    *)
(* delete of the add-on object, delete of a work.                          *)

\* Update of the add-on with the copy obj: a conflict unless obj carries the
\* stored resource version; an object marked for deletion goes when its last
\* finalizer does.
UpdateConflicts(obj, stored) == ~stored.exists \/ obj.rv # stored.rv

UpdatedAddon(obj, stored) ==
    IF obj.deleting /\ obj.finalizers = <<>>
    THEN NoAddon(stored.rv + 1)
    ELSE [obj EXCEPT !.rv = stored.rv + 1]

\* Delete of a work: gone at once, or marked while a finalizer holds it.
DeletedWork(w) ==
    IF ~w.exists THEN w
    ELSE IF w.finalizer THEN [w EXCEPT !.deleting = TRUE]
    ELSE NoWork

\* Update of a work replaces spec and metadata by the given object's: the
\* deletion timestamp stays, the finalizers are the given object's (none).
UpdatedWork(obj, stored) ==
    IF stored.deleting THEN NoWork ELSE obj

---------------------------------------------------------------------------
(* DeployReconciler: addonDeployController                                 *)

AddonWorkLabel == "open-cluster-management.io/addon-name"
addonFinalizer == "addon.open-cluster-management.io/work-cleanup"
addonName == "testaddon"

\* runtime.Encode(UnstructuredJSONScheme, object): the object's JSON bytes
Encode(object) == <<"json", object>>

\* (faulty variant) compares the lengths only
ManifestsEqualLengthOnly(new, old) == Len(new) = Len(old)

\* element-wise comparison of the raw manifests
ManifestsEqual(new, old) ==
    /\ Len(new) = Len(old)
    /\ \A i \in 1..Len(new) : new[i] = old[i]

\* nil for an empty object list, else the work addon-<add-on>-deploy
NilWork == NoWork

buildManifestWorkFromObject(objects) ==
    IF Len(objects) = 0
    THEN NilWork
    ELSE [exists |-> TRUE,
          payload |-> [i \in 1..Len(objects) |-> Encode(objects[i])],
          label |-> addonName, owner |-> FALSE,
          deleting |-> FALSE, finalizer |-> FALSE]

\* getAddonConfig: no configuration named, or the lister's Get
AddonConfigError == cma = "configured" /\ ~configCR

Outcome(a, w, writes, err) == [mca |-> a, work |-> w, writes |-> writes, err |-> err]

\* (faulty variant) the listed envelopes are reported and never deleted
removeAddonResourcesNoDelete ==
    IF ~workCache.exists
    THEN [work |-> work, writes |-> {}, err |-> FALSE]
    ELSE [work |-> work, writes |-> {}, err |-> TRUE]

\* (faulty variant) the pass that issues the deletes reports success
removeAddonResourcesDeleteSucceeds ==
    IF ~workCache.exists
    THEN [work |-> work, writes |-> {}, err |-> FALSE]
    ELSE IF ~workCache.deleting
    THEN [work |-> DeletedWork(work), writes |-> {"work.delete"}, err |-> FALSE]
    ELSE [work |-> work, writes |-> {}, err |-> TRUE]

\* removeAddonResources: list the labelled works in the lister; none: nil;
\* else delete those without a deletion timestamp and return an error.
removeAddonResources ==
    IF ~workCache.exists
    THEN [work |-> work, writes |-> {}, err |-> FALSE]
    ELSE IF ~workCache.deleting
    THEN [work |-> DeletedWork(work), writes |-> {"work.delete"}, err |-> TRUE]
    ELSE [work |-> work, writes |-> {}, err |-> TRUE]

\* removeAddonFinalizer on the copy addon read from the lister
removeAddonFinalizer(addon, w, writes) ==
    LET copied == WithoutFinalizer(addon.finalizers, addonFinalizer) IN
    IF Len(addon.finalizers) # Len(copied)
    THEN IF UpdateConflicts(addon, mca)
         THEN Outcome(mca, w, writes \cup {"addon.update"}, TRUE)
         ELSE Outcome(UpdatedAddon([addon EXCEPT !.finalizers = copied], mca), w,
                      writes \cup {"addon.update"}, FALSE)
    ELSE Outcome(mca, w, writes, FALSE)

\* (faulty variant) an envelope that exists is left as it is
ApplyWorkCreateOnly(new) ==
    IF ~work.exists
    THEN Outcome(mca, new, {"work.create"}, FALSE)
    ELSE Outcome(mca, work, {}, FALSE)

\* apply work: create if absent, update if the manifests differ
ApplyWork(new) ==
    IF ~work.exists
    THEN Outcome(mca, new, {"work.create"}, FALSE)
    ELSE IF ManifestsEqual(work.payload, new.payload)
    THEN Outcome(mca, work, {}, FALSE)
    ELSE Outcome(mca, UpdatedWork(new, work), {"work.update"}, FALSE)

\* sync(clusterName): what one reconcile does to storage in the current state
DeployOutcome ==
    IF ~managedCluster THEN Outcome(mca, work, {}, FALSE)
    ELSE IF ~mcaCache.exists THEN Outcome(mca, work, {}, FALSE)
    ELSE IF ~mcaCache.deleting /\ ~HasFinalizer(mcaCache.finalizers, addonFinalizer)
    THEN IF UpdateConflicts(mcaCache, mca)
         THEN Outcome(mca, work, {"addon.update"}, TRUE)
         ELSE Outcome(UpdatedAddon([mcaCache EXCEPT
                          !.finalizers = Append(mcaCache.finalizers, addonFinalizer)], mca),
                      work, {"addon.update"}, FALSE)
    ELSE IF mcaCache.deleting
    THEN LET r == removeAddonResources IN
         IF r.err THEN Outcome(mca, r.work, r.writes, TRUE)
         ELSE removeAddonFinalizer(mcaCache, r.work, r.writes)
    ELSE IF cma = "absent" THEN Outcome(mca, work, {}, TRUE)
    ELSE IF AddonConfigError THEN Outcome(mca, work, {}, TRUE)
    ELSE LET new == buildManifestWorkFromObject(supplier.objs) IN
         IF ~new.exists THEN Outcome(mca, work, {}, FALSE)
         ELSE ApplyWork(new)

\* the listers show what storage holds
DeployCachesSynced ==
    /\ mcaCache = mca
    /\ workCache = [exists |-> work.exists, deleting |-> work.deleting]

DeploySync ==
    /\ mca.rv < MaxRV
    /\ LET r == DeployOutcome IN
       /\ mca' = r.mca
       /\ work' = r.work
       /\ last' = [op |-> "DeploySync", writes |-> r.writes, err |-> r.err,
                   fresh |-> DeployCachesSynced]
    /\ UNCHANGED <<mcaCache, managedCluster, cma, configCR, workCache, supplier>>

(* The environment of the reconciler *)

\* the shared informer delivers the add-on's current state to the lister
InformerSyncAddon ==
    /\ mcaCache # mca
    /\ mcaCache' = mca
    /\ UNCHANGED last
    /\ UNCHANGED <<mca, managedCluster, cma, configCR, work, workCache, supplier>>

CachedWork(w) == [exists |-> w.exists, deleting |-> w.deleting]

\* the shared informer delivers the work's current state to the lister
InformerSyncWork ==
    /\ workCache # CachedWork(work)
    /\ workCache' = CachedWork(work)
    /\ UNCHANGED last
    /\ UNCHANGED <<mca, mcaCache, managedCluster, cma, configCR, work, supplier>>

\* an administrator creates the ManagedClusterAddOn
AddonCreate ==
    /\ ~mca.exists
    /\ mca.rv < MaxRV
    /\ mca' = [exists |-> TRUE, deleting |-> FALSE, finalizers |-> <<>>,
               annotations |-> NoAnnotations, rv |-> mca.rv + 1]
    /\ last' = EnvStep
    /\ UNCHANGED <<mcaCache, managedCluster, cma, configCR, work, workCache, supplier>>

\* an administrator deletes it: storage marks it while finalizers hold it
AddonDelete ==
    /\ mca.exists /\ ~mca.deleting
    /\ mca.rv < MaxRV
    /\ mca' = IF mca.finalizers = <<>> THEN NoAddon(mca.rv + 1)
              ELSE [mca EXCEPT !.deleting = TRUE, !.rv = mca.rv + 1]
    /\ last' = EnvStep
    /\ UNCHANGED <<mcaCache, managedCluster, cma, configCR, work, workCache, supplier>>

\* the ManagedCluster appears in, or leaves, the cluster lister
ClusterChange ==
    /\ managedCluster' = ~managedCluster
    /\ last' = EnvStep
    /\ UNCHANGED <<mca, mcaCache, cma, configCR, work, workCache, supplier>>

\* the ClusterManagementAddOn is created, and may name a configuration
CMAChange ==
    /\ \E c \in {"plain", "configured"}, cr \in BOOLEAN :
          /\ <<c, cr>> # <<cma, configCR>>
          /\ cma' = c
          /\ configCR' = cr
    /\ last' = EnvStep
    /\ UNCHANGED <<mca, mcaCache, managedCluster, work, workCache, supplier>>

\* the add-on's manifest supplier starts returning something else
SupplierChange ==
    /\ \E r \in SupplierResults :
          /\ r # supplier
          /\ supplier' = r
    /\ last' = EnvStep
    /\ UNCHANGED <<mca, mcaCache, managedCluster, cma, configCR, work, workCache>>

\* the work agent on the spoke puts its finalizer on the work
WorkAgentAddFinalizer ==
    /\ work.exists /\ ~work.deleting /\ ~work.finalizer
    /\ work' = [work EXCEPT !.finalizer = TRUE]
    /\ last' = EnvStep
    /\ UNCHANGED <<mca, mcaCache, managedCluster, cma, configCR, workCache, supplier>>

\* the work agent has cleaned up a work marked for deletion: storage drops it
WorkAgentFinalize ==
    /\ work.exists /\ work.deleting
    /\ work' = NoWork
    /\ last' = EnvStep
    /\ UNCHANGED <<mca, mcaCache, managedCluster, cma, configCR, workCache, supplier>>

(* ConfigAnnotator: addonConfigController, on the same add-on *)

NotConstructed == [constructed |-> FALSE, enableRegistration |-> FALSE, bootstrap |-> "none"]

\* NewAddonConfigController with enableRegistration, and what the add-on's
\* AgentBootstrapKubeConfig answers: nothing, a kubeconfig, or an error
Annotators ==
    [constructed : {TRUE}, enableRegistration : BOOLEAN, bootstrap : {"none", "data", "error"}]

\* c.signer: NewAddonConfigController leaves it unset
annotatorSigner == ""
addonInstallNamespace == "default"

annotationData(a) ==
    LET registration ==
            IF a.enableRegistration
            THEN [k \in {"signer", "installNamespace", "enable_registration"} |->
                     IF k = "signer" THEN annotatorSigner
                     ELSE IF k = "installNamespace" THEN addonInstallNamespace
                     ELSE "true"]
            ELSE [k \in {"enable_registration"} |-> "false"]
    IN  IF a.bootstrap = "data"
        THEN [k \in DOMAIN registration \cup {"bootstrapSecret"} |->
                 IF k = "bootstrapSecret" THEN "testaddon-bootstrap-kubeconfig"
                 ELSE registration[k]]
        ELSE registration

\* resourcemerge.MergeMap: modified iff some required key is missing or differs
MergeModifies(existing, required) ==
    \E k \in DOMAIN required : k \notin DOMAIN existing \/ existing[k] # required[k]

MergeMap(existing, required) ==
    [k \in DOMAIN existing \cup DOMAIN required |->
        IF k \in DOMAIN required THEN required[k] ELSE existing[k]]

ConfigOutcome ==
    IF ~mcaCache.exists THEN [mca |-> mca, writes |-> {}, err |-> FALSE]
    ELSE IF ~managedCluster THEN [mca |-> mca, writes |-> {}, err |-> FALSE]
    ELSE IF annotator.bootstrap = "error" THEN [mca |-> mca, writes |-> {}, err |-> TRUE]
    ELSE IF ~MergeModifies(mcaCache.annotations, annotationData(annotator))
    THEN [mca |-> mca, writes |-> {}, err |-> FALSE]
    ELSE IF UpdateConflicts(mcaCache, mca)
    THEN [mca |-> mca, writes |-> {"addon.update"}, err |-> TRUE]
    ELSE [mca |-> UpdatedAddon([mcaCache EXCEPT
                      !.annotations = MergeMap(@, annotationData(annotator))], mca),
          writes |-> {"addon.update"}, err |-> FALSE]

ConfigSync ==
    /\ annotator.constructed
    /\ mca.rv < MaxRV
    /\ LET r == ConfigOutcome IN
       /\ mca' = r.mca
       /\ last' = [op |-> "ConfigSync", writes |-> r.writes, err |-> r.err,
                   fresh |-> (mcaCache = mca)]
    /\ UNCHANGED <<mcaCache, managedCluster, cma, configCR, work, workCache, supplier, annotator>>

\* the manager starts (or restarts) the controller for the add-on
AnnotatorConstructed ==
    /\ \E a \in Annotators : a # annotator /\ annotator' = a
    /\ last' = EnvStep
    /\ UNCHANGED deployVars

DeployInit ==
    /\ mca = NoAddon(0)
    /\ mcaCache = NoAddon(0)
    /\ managedCluster = TRUE
    /\ cma = "absent"
    /\ configCR = FALSE
    /\ work = NoWork
    /\ workCache = CachedWork(NoWork)
    /\ supplier = [objs |-> <<>>, err |-> FALSE]

---------------------------------------------------------------------------
(* CSRApprover: csrApprovingController                                     *)

spokeClusterNameLabel == "open-cluster-management.io/cluster-name"
KubeAPIServerClientSignerName == "kubernetes.io/kube-apiserver-client"
CertificateApproved == "Approved"
CertificateDenied == "Denied"
CertificateFailed == "Failed"
ConditionTypes == {CertificateApproved, CertificateDenied, CertificateFailed}

\* Strings that are compared by prefix are sequences of pieces.
clusterName == <<"testcluster">>
HasPrefix(str, prefix) ==
    /\ Len(prefix) <= Len(str)
    /\ SubSeq(str, 1, Len(prefix)) = prefix

\* helpers.AgentGroup and helpers.AgentUser
AgentGroup(cluster, addon) ==
    <<"system:open-cluster-management:cluster:">> \o cluster \o <<":addon:">> \o addon
AgentUser(cluster, agent, addon) ==
    AgentGroup(cluster, addon) \o <<":agent:">> \o agent

\* the approver's add-on, and a second add-on whose name extends it
csrAddonName == <<"testaddon">>
otherAddonName == <<"testaddon", "-metrics">>

NoLabel == <<>>

\* the requests an agent (or anybody else) may post
CSRLabels == {NoLabel, clusterName}
CSRSigners == {"", KubeAPIServerClientSignerName, "example.com/custom"}
CSRBlocks == {"none", "CERTIFICATE", "CERTIFICATE REQUEST", "CERTIFICATE REQUEST malformed"}
CSROrganizations ==
    {<<>>, <<AgentGroup(clusterName, csrAddonName)>>, <<AgentGroup(clusterName, otherAddonName)>>,
     <<AgentGroup(clusterName, csrAddonName), AgentGroup(clusterName, otherAddonName)>>}
CSRCommonNames ==
    {AgentUser(clusterName, <<"x7k2p">>, csrAddonName),
     AgentUser(clusterName, <<"x7k2p">>, otherAddonName)}
CSRUsernames == CSRCommonNames

NoCSR ==
    [exists |-> FALSE, label |-> NoLabel, signerName |-> "", block |-> "none",
     organization |-> <<>>, commonName |-> <<>>, username |-> <<>>, conditions |-> <<>>]

HasCondition(c, type) == \E i \in 1..Len(c.conditions) : c.conditions[i].type = type

\* the condition sync appends to approve
AutoApproved ==
    [type |-> CertificateApproved, status |-> "True",
     reason |-> "AutoApprovedByHubCSRApprovingController"]

\* a condition put by someone else
ExternalCondition(type) == [type |-> type, status |-> "True", reason |-> "Other"]

\* Check whether a CSR is in terminal state
IsCSRInTerminalState(c) ==
    HasCondition(c, CertificateApproved) \/ HasCondition(c, CertificateDenied)

\* approved, unless a Denied condition is present
isCSRApproved(c) ==
    ~HasCondition(c, CertificateDenied) /\ HasCondition(c, CertificateApproved)

\* the signer the controller is constructed with
csrSigner == KubeAPIServerClientSignerName

isSpokeClusterClientCertRenewal(c) ==
    IF c.label = NoLabel THEN FALSE
    ELSE IF c.signerName # "" /\ c.signerName # csrSigner THEN FALSE
    ELSE IF c.block # "CERTIFICATE REQUEST" THEN FALSE
    ELSE IF Len(c.organization) # 1 THEN FALSE
    ELSE IF c.organization[1] # AgentGroup(c.label, csrAddonName) THEN FALSE
    ELSE IF ~HasPrefix(c.commonName, c.organization[1]) THEN FALSE
    ELSE c.username = c.commonName

\* (faulty variant) a chain without functions passes
ApproveChainEmptyPasses(checks) == \A i \in 1..Len(checks) : checks[i]

\* (faulty variant) one passing check is enough
ApproveChainAnyPasses(checks) == \E i \in 1..Len(checks) : checks[i]

\* the loop over approveCheckFuncs: false for none, else all of them
ApproveChain(checks) ==
    /\ Len(checks) > 0
    /\ \A i \in 1..Len(checks) : checks[i]

\* the loop over renewCheckFuncs = [IsCSRInTerminalState, isSpokeClusterClientCertRenewal]
RenewChain(c) == IsCSRInTerminalState(c) /\ isSpokeClusterClientCertRenewal(c)

SARAnswers == {"allowed", "denied", "error"}

CSRResult(c, writes, err) == [csr |-> c, writes |-> writes, err |-> err]

\* sync(csrName) with the SubjectAccessReview answering sar and the approval
\* update accepted by storage or not
\* the pass from the point where Get has returned the object got: the
\* approval update carries its resource version and storage rejects it when
\* the stored CSR has changed since
CSROutcomeOn(got, sar, accepted) ==
    IF ~got.exists THEN CSRResult(csr, {}, FALSE)
    ELSE IF isCSRApproved(got) THEN CSRResult(csr, {}, FALSE)
    ELSE LET approved == ApproveChain(approveChecks)
             renewApproved == RenewChain(got)
         IN  IF ~approved /\ ~renewApproved THEN CSRResult(csr, {}, FALSE)
             ELSE IF renewApproved /\ sar = "error" THEN CSRResult(csr, {"sar.create"}, TRUE)
             ELSE IF renewApproved /\ sar = "denied" THEN CSRResult(csr, {"sar.create"}, FALSE)
             ELSE LET reviews == IF renewApproved THEN {"sar.create"} ELSE {} IN
                  IF accepted /\ got = csr
                  THEN CSRResult([csr EXCEPT !.conditions = Append(@, AutoApproved)],
                                 reviews \cup {"csr.updateApproval"}, FALSE)
                  ELSE CSRResult(csr, reviews \cup {"csr.updateApproval"}, TRUE)

CSROutcome(sar, accepted) == CSROutcomeOn(csr, sar, accepted)

CSRSync ==
    /\ Len(csr.conditions) < MaxConditions
    /\ \E sar \in SARAnswers, accepted \in BOOLEAN :
          LET r == CSROutcome(sar, accepted) IN
          /\ csr' = r.csr
          /\ last' = [op |-> "CSRSync", writes |-> r.writes, err |-> r.err, sar |-> sar]
    /\ UNCHANGED <<approveChecks, inflight>>

\* a pass of a second worker or replica, in two steps: its Get ...
CSRConcurrentGet ==
    /\ csr.exists
    /\ ~inflight.exists
    /\ inflight' = csr
    /\ UNCHANGED <<csr, approveChecks, last>>

\* ... and the rest of its pass, on the object it got
CSRConcurrentUpdate ==
    /\ inflight.exists
    /\ Len(csr.conditions) < MaxConditions
    /\ \E sar \in SARAnswers, accepted \in BOOLEAN :
          LET r == CSROutcomeOn(inflight, sar, accepted) IN
          /\ csr' = r.csr
          /\ last' = [op |-> "CSRConcurrentUpdate", writes |-> r.writes, err |-> r.err,
                      sar |-> sar, lost |-> (inflight # csr)]
    /\ inflight' = NoCSR
    /\ UNCHANGED approveChecks

\* a request is posted; the configured approve checks each give their verdict on it
CSRCreate ==
    /\ ~csr.exists
    /\ \E l \in CSRLabels, s \in CSRSigners, b \in CSRBlocks, o \in CSROrganizations,
          cn \in CSRCommonNames, u \in CSRUsernames :
          csr' = [exists |-> TRUE, label |-> l, signerName |-> s, block |-> b,
                  organization |-> o, commonName |-> cn, username |-> u,
                  conditions |-> <<>>]
    /\ \E n \in 0..MaxChecks : \E checks \in [1..n -> BOOLEAN] : approveChecks' = checks
    /\ last' = EnvStep
    /\ UNCHANGED inflight

\* another approver, or the signer, adds a condition
CSRExternalCondition ==
    /\ csr.exists
    /\ Len(csr.conditions) < MaxConditions
    /\ \E t \in ConditionTypes :
          /\ ~HasCondition(csr, t)
          /\ csr' = [csr EXCEPT !.conditions = Append(@, ExternalCondition(t))]
    /\ last' = EnvStep
    /\ UNCHANGED <<approveChecks, inflight>>

CSRInit ==
    /\ csr = NoCSR
    /\ inflight = NoCSR
    /\ approveChecks = <<>>

---------------------------------------------------------------------------
(* Status conditions and helpers.UpdateAddonStatus                         *)

NoConditions == [t \in {} |-> [status |-> "", reason |-> "", message |-> ""]]

Condition(type, status, reason, message) ==
    [type |-> type, status |-> status, reason |-> reason, message |-> message]

\* (faulty variant) a condition of that type that is already present is left alone
SetStatusConditionIfAbsent(conditions, cond) ==
    [t \in DOMAIN conditions \cup {cond.type} |->
        IF t \in DOMAIN conditions THEN conditions[t]
        ELSE [status |-> cond.status, reason |-> cond.reason, message |-> cond.message]]

\* meta.SetStatusCondition: the condition of that type is added or overwritten.
\* (lastTransitionTime changes only together with status and is left out.)
SetStatusCondition(conditions, cond) ==
    [t \in DOMAIN conditions \cup {cond.type} |->
        IF t = cond.type
        THEN [status |-> cond.status, reason |-> cond.reason, message |-> cond.message]
        ELSE conditions[t]]

UpdateAddonConditionFn(cond, conditions) == SetStatusCondition(conditions, cond)

NoStoredAddon == [exists |-> FALSE, conditions |-> NoConditions]

\* UpdateAddonStatus on the stored add-on: get, apply, compare, update status.
\* RetryOnConflict re-reads on a conflict, so the outcome is that of the
\* attempt that meets no concurrent writer.
UpdateAddonStatus(stored, cond) ==
    IF ~stored.exists THEN [addon |-> stored, updated |-> FALSE, err |-> TRUE]
    ELSE LET newConditions == UpdateAddonConditionFn(cond, stored.conditions) IN
         IF newConditions = stored.conditions
         THEN [addon |-> stored, updated |-> FALSE, err |-> FALSE]
         ELSE [addon |-> [stored EXCEPT !.conditions = newConditions],
               updated |-> TRUE, err |-> FALSE]

\* the orders in which a lister may return the members of a set
ListOrders(S) ==
    {order \in [1..Cardinality(S) -> S] : \A x \in S : \E i \in DOMAIN order : order[i] = x}

---------------------------------------------------------------------------
(* HubLivenessReconciler: leaseController on the hub                       *)

leaseDurationTimes == 5

HubClusters == {"cluster1", "cluster2"}
HubAddons == {"addon1", "addon2"}
\* the add-on names in use in each cluster namespace
ClusterAddons(k) == IF k = "cluster1" THEN {"addon1"} ELSE HubAddons
\* cluster.Spec.LeaseDurationSeconds of each cluster (0: the field is unset)
LeaseDurationSeconds == [k \in HubClusters |-> IF k = "cluster1" THEN 0 ELSE 1]

\* the instants the clock is observed at
TimePoints == {0, 5, 300}

hubLeaseName == "addon-lease"
NoLease == [exists |-> FALSE, renewTime |-> 0, label |-> ""]

AvailableUnknown ==
    Condition("Available", "Unknown", "AddonManagerUpdateStopped",
              "Addon manager stopped updating its lease.")

\* (faulty variant) an unset lease duration is taken as it is
gracePeriodNoDefault(k) == leaseDurationTimes * LeaseDurationSeconds[k]

\* the product of the constant c and the int32 s as Go computes it in int32:
\* the low 32 bits of the product, read as a signed number (worked in two
\* halves of 16 bits, 65536 = 2^16 and 32768 = 2^15)
MulInt32(c, s) ==
    LET lo == (c * (s % 65536)) % 65536
        hi == (c * (s \div 65536) + (c * (s % 65536)) \div 65536) % 65536
    IN  IF hi >= 32768 THEN (hi - 65536) * 65536 + lo ELSE hi * 65536 + lo

\* the freshness test for a cluster whose spec.leaseDurationSeconds is
\* seconds: gracePeriod in seconds is the int32 product, which
\* time.Duration(...) * time.Second turns into nanoseconds without loss
HealthyAt(t, renewTime, seconds) ==
    t < renewTime + MulInt32(leaseDurationTimes, IF seconds = 0 THEN 60 ELSE seconds)

gracePeriod(k) ==
    MulInt32(leaseDurationTimes,
             IF LeaseDurationSeconds[k] = 0 THEN 60 ELSE LeaseDurationSeconds[k])

\* now.Before(observedLease.Spec.RenewTime.Add(gracePeriod))
LeaseFresh(lease, k) == now < lease.renewTime + gracePeriod(k)

\* the loop over the listed add-ons of cluster k, from position i on
RECURSIVE UpdateListedAddons(_, _, _, _)
UpdateListedAddons(k, addons, i, st) ==
    IF i > Len(addons) THEN st
    ELSE LET r == UpdateAddonStatus(st.addon[k][addons[i]], AvailableUnknown) IN
         IF r.err THEN [st EXCEPT !.err = TRUE]
         ELSE UpdateListedAddons(k, addons, i + 1,
                 [st EXCEPT !.addon[k][addons[i]] = r.addon,
                            !.writes = IF r.updated
                                       THEN @ \cup {<<"addon.updateStatus", k, addons[i]>>}
                                       ELSE @])

\* (faulty variant) the created lease carries the zero time
NewLeaseZeroTime(k) == [exists |-> TRUE, renewTime |-> 0, label |-> k]

\* the lease the controller creates for cluster k
NewLease(k) == [exists |-> TRUE, renewTime |-> now, label |-> k]

\* the loop over the listed clusters, from position i on; addonOrder[k] is
\* the order in which the add-on lister returns the add-ons of k.  A create
\* of a lease that storage already holds is rejected (AlreadyExists).
RECURSIVE HubLeasePass(_, _, _, _)
HubLeasePass(clusters, addonOrder, i, st) ==
    IF i > Len(clusters) THEN st
    ELSE LET k == clusters[i]
             observedLease == hubLeaseCache[k]
             at == [st EXCEPT !.visited = @ \cup {k}]
         IN  IF ~observedLease.exists
             THEN LET created == [at EXCEPT !.writes = @ \cup {<<"lease.create", k, NewLease(k)>>}] IN
                  IF st.lease[k].exists
                  THEN [created EXCEPT !.err = TRUE]
                  ELSE HubLeasePass(clusters, addonOrder, i + 1,
                                    [created EXCEPT !.lease[k] = NewLease(k)])
             ELSE IF LeaseFresh(observedLease, k)
             THEN HubLeasePass(clusters, addonOrder, i + 1, at)
             ELSE LET after == UpdateListedAddons(k, addonOrder[k], 1, at) IN
                  IF after.err THEN after
                  ELSE HubLeasePass(clusters, addonOrder, i + 1, after)

HubLeaseOutcome(clusters, addonOrder) ==
    HubLeasePass(clusters, addonOrder, 1,
                 [lease |-> hubLease, addon |-> hubAddon, writes |-> {},
                  visited |-> {}, err |-> FALSE])

AddonOrders == {o \in [HubClusters -> UNION {ListOrders(S) : S \in SUBSET HubAddons}] :
                   \A k \in HubClusters : o[k] \in ListOrders(hubAddonCache[k])}

HubLeaseSync ==
    /\ \E clusters \in ListOrders(HubClusters), addonOrder \in AddonOrders :
          LET r == HubLeaseOutcome(clusters, addonOrder) IN
          /\ hubLease' = r.lease
          /\ hubAddon' = r.addon
          /\ last' = [op |-> "HubLeaseSync", writes |-> r.writes, err |-> r.err]
    /\ UNCHANGED <<hubLeaseCache, hubAddonCache, now>>

HubInformerSyncLease ==
    /\ \E k \in HubClusters :
          /\ hubLeaseCache[k] # hubLease[k]
          /\ hubLeaseCache' = [hubLeaseCache EXCEPT ![k] = hubLease[k]]
    /\ last' = EnvStep
    /\ UNCHANGED <<hubLease, hubAddon, hubAddonCache, now>>

StoredAddons(k) == {a \in HubAddons : hubAddon[k][a].exists}

HubInformerSyncAddons ==
    /\ \E k \in HubClusters :
          /\ hubAddonCache[k] # StoredAddons(k)
          /\ hubAddonCache' = [hubAddonCache EXCEPT ![k] = StoredAddons(k)]
    /\ last' = EnvStep
    /\ UNCHANGED <<hubLease, hubLeaseCache, hubAddon, now>>

HubAddonCreate ==
    /\ \E k \in HubClusters, a \in HubAddons :
          /\ a \in ClusterAddons(k)
          /\ ~hubAddon[k][a].exists
          /\ hubAddon' = [hubAddon EXCEPT ![k][a] = [exists |-> TRUE, conditions |-> NoConditions]]
    /\ last' = EnvStep
    /\ UNCHANGED <<hubLease, hubLeaseCache, hubAddonCache, now>>

HubAddonDelete ==
    /\ \E k \in HubClusters, a \in HubAddons :
          /\ hubAddon[k][a].exists
          /\ hubAddon' = [hubAddon EXCEPT ![k][a] = NoStoredAddon]
    /\ last' = EnvStep
    /\ UNCHANGED <<hubLease, hubLeaseCache, hubAddonCache, now>>

\* the spoke-side observer reports the add-on available
HubAddonReportedAvailable ==
    /\ \E k \in HubClusters, a \in HubAddons :
          /\ hubAddon[k][a].exists
          /\ hubAddon' = [hubAddon EXCEPT ![k][a].conditions =
                 SetStatusCondition(@, Condition("Available", "True",
                     "ManagedClusterAddOnLeaseUpdated", "Addon agent is updating its lease."))]
    /\ last' = EnvStep
    /\ UNCHANGED <<hubLease, hubLeaseCache, hubAddonCache, now>>

\* the spoke-side renewer renews the lease of its cluster
HubLeaseRenewed ==
    /\ \E k \in HubClusters :
          /\ hubLease[k].exists
          /\ hubLease[k].renewTime # now
          /\ hubLease' = [hubLease EXCEPT ![k].renewTime = now]
    /\ last' = EnvStep
    /\ UNCHANGED <<hubLeaseCache, hubAddon, hubAddonCache, now>>

Tick ==
    /\ \E t \in TimePoints : t > now /\ now' = t
    /\ last' = EnvStep

HubLeaseInit ==
    /\ hubLease = [k \in HubClusters |-> NoLease]
    /\ hubLeaseCache = [k \in HubClusters |-> NoLease]
    /\ hubAddon = [k \in HubClusters |-> [a \in HubAddons |-> NoStoredAddon]]
    /\ hubAddonCache = [k \in HubClusters |-> {}]

---------------------------------------------------------------------------
(* AddonLeaseObserver: addonLeaseController on the spoke                   *)

addonLeaseDurationTimes == 5
AddonLeaseDurationSeconds == 60

SpokeAddons == {"addon1", "addon2"}
\* (namespace, value of the label open-cluster-management-addon) of each lease
LeaseSlots == {<<"ns1", "addon1">>, <<"ns2", "addon1">>, <<"ns1", "addon2">>}

\* (faulty variant) the condition for a missing lease carries the reason of a stopped one
AddonLeaseNotFoundAsStopped ==
    Condition("Degraded", "True", "AddonLeaseUpdateStopped", "Addon agent is not found.")

AddonLeaseNotFound ==
    Condition("Degraded", "True", "AddonLeaseNotFound", "Addon agent is not found.")
ManagedClusterLeaseUpdated ==
    Condition("Degraded", "False", "ManagedClusterLeaseUpdated", "Addon agent is updating its lease.")
AddonLeaseUpdateStopped ==
    Condition("Degraded", "True", "AddonLeaseUpdateStopped", "Addon agent stopped updating its lease.")

\* now.Before(lease.Spec.RenewTime.Add(gracePeriod))
AddonLeaseFresh(lease) ==
    now < lease.renewTime + addonLeaseDurationTimes * AddonLeaseDurationSeconds

\* (faulty variant) only the first lease of the list is examined
checkFirstAddonLease(leases) ==
    IF AddonLeaseFresh(leases[1]) THEN ManagedClusterLeaseUpdated ELSE AddonLeaseUpdateStopped

\* the loop of checkAddonLeases, from position i on
RECURSIVE scanAddonLeases(_, _)
scanAddonLeases(leases, i) ==
    IF i > Len(leases) THEN AddonLeaseUpdateStopped
    ELSE IF AddonLeaseFresh(leases[i]) THEN ManagedClusterLeaseUpdated
    ELSE scanAddonLeases(leases, i + 1)

checkAddonLeases(leases) == scanAddonLeases(leases, 1)

\* the slots of the leases that carry the label of the add-on
LabelledSlots(addon) == {slot \in LeaseSlots : slot[2] = addon /\ agentLease[slot].exists}

\* getLeaseByAddonName, the lister returning the slots in the order slotOrder
getLeaseByAddonName(slotOrder) == [i \in DOMAIN slotOrder |-> agentLease[slotOrder[i]]]

\* the condition the pass derives for an add-on from its leases
DerivedCondition(leases) ==
    IF Len(leases) = 0 THEN AddonLeaseNotFound ELSE checkAddonLeases(leases)

\* the loop over the listed add-ons, from position i on; actions are the
\* calls on the add-on client
RECURSIVE AddonLeasePass(_, _, _, _)
AddonLeasePass(addons, slotOrder, i, st) ==
    IF i > Len(addons) THEN st
    ELSE LET a == addons[i]
             leases == getLeaseByAddonName(slotOrder[a])
             r == UpdateAddonStatus(st.addon[a], DerivedCondition(leases))
             got == [st EXCEPT !.actions = Append(@, <<"get", a>>)]
         IN  IF r.err THEN [got EXCEPT !.err = TRUE]
             ELSE IF ~r.updated THEN AddonLeasePass(addons, slotOrder, i + 1, got)
             ELSE AddonLeasePass(addons, slotOrder, i + 1,
                     [got EXCEPT !.addon[a] = r.addon,
                                 !.actions = Append(@, <<"update", a>>),
                                 !.writes = @ \cup {<<"addon.updateStatus", a>>}])

AddonLeaseOutcome(addons, slotOrder) ==
    AddonLeasePass(addons, slotOrder, 1,
                   [addon |-> spokeAddon, actions |-> <<>>, writes |-> {}, err |-> FALSE])

SlotOrders ==
    {o \in [SpokeAddons -> UNION {ListOrders(S) : S \in SUBSET LeaseSlots}] :
        \A a \in SpokeAddons : o[a] \in ListOrders(LabelledSlots(a))}

AddonLeaseSync ==
    /\ \E addons \in ListOrders(spokeAddonCache), slotOrder \in SlotOrders :
          LET r == AddonLeaseOutcome(addons, slotOrder) IN
          /\ spokeAddon' = r.addon
          /\ last' = [op |-> "AddonLeaseSync", writes |-> r.writes, err |-> r.err]
    /\ UNCHANGED <<spokeAddonCache, agentLease, now>>

StoredSpokeAddons == {a \in SpokeAddons : spokeAddon[a].exists}

SpokeInformerSyncAddons ==
    /\ spokeAddonCache # StoredSpokeAddons
    /\ spokeAddonCache' = StoredSpokeAddons
    /\ last' = EnvStep
    /\ UNCHANGED <<spokeAddon, agentLease, now>>

SpokeAddonCreate ==
    /\ \E a \in SpokeAddons :
          /\ ~spokeAddon[a].exists
          /\ spokeAddon' = [spokeAddon EXCEPT ![a] = [exists |-> TRUE, conditions |-> NoConditions]]
    /\ last' = EnvStep
    /\ UNCHANGED <<spokeAddonCache, agentLease, now>>

SpokeAddonDelete ==
    /\ \E a \in SpokeAddons :
          /\ spokeAddon[a].exists
          /\ spokeAddon' = [spokeAddon EXCEPT ![a] = NoStoredAddon]
    /\ last' = EnvStep
    /\ UNCHANGED <<spokeAddonCache, agentLease, now>>

\* an add-on agent creates or renews its heartbeat lease
AgentHeartbeat ==
    /\ \E slot \in LeaseSlots :
          /\ agentLease[slot] # [exists |-> TRUE, renewTime |-> now]
          /\ agentLease' = [agentLease EXCEPT ![slot] = [exists |-> TRUE, renewTime |-> now]]
    /\ last' = EnvStep
    /\ UNCHANGED <<spokeAddon, spokeAddonCache, now>>

AgentLeaseDelete ==
    /\ \E slot \in LeaseSlots :
          /\ agentLease[slot].exists
          /\ agentLease' = [agentLease EXCEPT ![slot] = [exists |-> FALSE, renewTime |-> 0]]
    /\ last' = EnvStep
    /\ UNCHANGED <<spokeAddon, spokeAddonCache, now>>

AddonLeaseInit ==
    /\ spokeAddon = [a \in SpokeAddons |-> NoStoredAddon]
    /\ spokeAddonCache = {}
    /\ agentLease = [slot \in LeaseSlots |-> [exists |-> FALSE, renewTime |-> 0]]

---------------------------------------------------------------------------
(* LeaseRenewer: leaseUpdater on the spoke                                 *)

\* the lease durations Start is called with, in clock units
LeaseDurations == {4, 8}

\* wait.Jitter(leaseDuration, leaseUpdateJitterFactor) with the factor 0.25:
\* the waits between two calls of update (the largest one is the supremum)
JitteredPeriods(leaseDuration) == {leaseDuration + j : j \in 0..(leaseDuration \div 4)}

NotStarted == [running |-> FALSE, started |-> FALSE, leaseDuration |-> 0,
               startTime |-> 0, nextCall |-> 0, clean |-> TRUE]

\* (faulty variant) the update leaves the renew time as it was read
RenewedLeaseKeepsTime(lease) == lease

\* lease.Spec.RenewTime = &metav1.MicroTime{Time: time.Now()}
RenewedLease(lease) == [lease EXCEPT !.renewTime = now]

\* update(ctx): the calls it makes on the hub client and what they leave,
\* with the get and the update each answered or failed by the server
RenewerOutcome(getOK, updateOK) ==
    IF ~renewerLease.exists \/ ~getOK
    THEN [lease |-> renewerLease, calls |-> <<"get">>, renewed |-> FALSE, err |-> TRUE]
    ELSE IF ~updateOK
    THEN [lease |-> renewerLease, calls |-> <<"get", "update">>, renewed |-> FALSE, err |-> TRUE]
    ELSE [lease |-> RenewedLease(renewerLease), calls |-> <<"get", "update">>,
          renewed |-> TRUE, err |-> FALSE]

\* Start: the update routine is launched; its first call is immediate
RenewerStart ==
    /\ ~updater.started
    /\ \E d \in LeaseDurations :
          updater' = [running |-> TRUE, started |-> TRUE, leaseDuration |-> d,
                      startTime |-> now, nextCall |-> now, clean |-> TRUE]
    /\ last' = [op |-> "RenewerStart", writes |-> {}, err |-> FALSE]
    /\ UNCHANGED <<renewerLease, renewals, now>>

\* one call of update by JitterUntilWithContext, and the wait it then starts
RenewerUpdate ==
    /\ updater.running
    /\ now = updater.nextCall
    /\ \E getOK \in BOOLEAN, updateOK \in BOOLEAN, period \in JitteredPeriods(updater.leaseDuration) :
          LET r == RenewerOutcome(getOK, updateOK) IN
          /\ renewerLease' = r.lease
          /\ renewals' = IF r.renewed THEN Append(renewals, r.lease.renewTime) ELSE renewals
          /\ updater' = [updater EXCEPT !.nextCall = now + period,
                                        !.clean = @ /\ ~r.err]
          /\ last' = [op |-> "RenewerUpdate",
                      writes |-> {r.calls[i] : i \in 2..Len(r.calls)}, err |-> r.err]
    /\ UNCHANGED now

\* stop: the update routine is cancelled
RenewerStop ==
    /\ updater.running
    /\ updater' = [updater EXCEPT !.running = FALSE]
    /\ last' = [op |-> "RenewerStop", writes |-> {}, err |-> FALSE]
    /\ UNCHANGED <<renewerLease, renewals, now>>

\* the hub creates the lease
RenewerLeaseCreated ==
    /\ ~renewerLease.exists
    /\ renewerLease' = [exists |-> TRUE, renewTime |-> now]
    /\ last' = EnvStep
    /\ UNCHANGED <<updater, renewals, now>>

RenewerLeaseDeleted ==
    /\ renewerLease.exists
    /\ renewerLease' = [exists |-> FALSE, renewTime |-> 0]
    /\ last' = EnvStep
    /\ UNCHANGED <<updater, renewals, now>>

\* the clock advances, a call of update that is due being made first
RenewerClock ==
    /\ now < MaxTime
    /\ ~(updater.running /\ now = updater.nextCall)
    /\ now' = now + 1
    /\ last' = EnvStep
    /\ UNCHANGED <<renewerLease, updater, renewals>>

RenewerInit ==
    /\ renewerLease = [exists |-> FALSE, renewTime |-> 0]
    /\ updater = NotStarted
    /\ renewals = <<>>
    /\ loops = {}
    /\ cancel = 0
    /\ starts = 0

(* Start and stop called any number of times, in any order; the mutex makes
   each call one step *)

\* Start: a new context and routine; u.cancel now cancels the new one
LeaseUpdaterStart ==
    /\ starts < MaxStarts
    /\ starts' = starts + 1
    /\ loops' = loops \cup {starts + 1}
    /\ cancel' = starts + 1
    /\ last' = [op |-> "Start", writes |-> {}, err |-> FALSE]
    /\ UNCHANGED <<renewerLease, now>>

\* stop: nothing when u.cancel is nil, else cancel that context and forget it
LeaseUpdaterStop ==
    /\ loops' = IF cancel = 0 THEN loops ELSE loops \ {cancel}
    /\ cancel' = 0
    /\ last' = [op |-> "stop", writes |-> {}, err |-> FALSE]
    /\ UNCHANGED <<renewerLease, starts, now>>

\* a call of update by one of the routines still running
LeaseUpdaterUpdate ==
    /\ \E l \in loops, getOK \in BOOLEAN, updateOK \in BOOLEAN :
          LET r == RenewerOutcome(getOK, updateOK) IN
          /\ renewerLease' = r.lease
          /\ last' = [op |-> "update", writes |-> {r.calls[i] : i \in 2..Len(r.calls)},
                      err |-> r.err, loop |-> l]
    /\ UNCHANGED <<loops, cancel, starts, now>>

LeaseUpdaterClock ==
    /\ now < MaxTime
    /\ now' = now + 1
    /\ last' = EnvStep
    /\ UNCHANGED <<renewerLease, loops, cancel, starts>>

---------------------------------------------------------------------------
(* CertificateManager: certificateManagerController on the spoke           *)

spokeRegistrationFinalizer == "addonregistration.open-cluster-management.io"

\* annotation sets an add-on may carry
RegistrationValues == {"true", "false", "yes"}
AnnotationSets ==
    UNION {[keys -> RegistrationValues \cup {"default"}] :
              keys \in SUBSET {"enable_registration", "installNamespace"}}
AddonAnnotations ==
    {a \in AnnotationSets :
        /\ "enable_registration" \in DOMAIN a => a["enable_registration"] \in RegistrationValues
        /\ "installNamespace" \in DOMAIN a => a["installNamespace"] = "default"}

\* the data of the config map, or its absence
ConfigMaps ==
    {[exists |-> FALSE, data |-> NoAnnotations]} \cup
    {[exists |-> TRUE, data |-> d] : d \in {a \in AddonAnnotations : "installNamespace" \notin DOMAIN a}}

\* m[key] of a Go map: the empty string for a missing key
MapValue(m, key) == IF key \in DOMAIN m THEN m[key] ELSE ""

\* agent names: read from the secret or generated
AgentNames == {"agnt1", "agnt2"}

\* cm.clusterName: newCertificateManager builds the manager without it
managerClusterName == ""

\* an entry of secret.Data: missing, present without bytes, present with bytes
DataEntries == {"nil", "empty", "set"}
\* tls.crt: missing, bytes that do not parse, or a certificate with the
\* (cluster, agent) names of its subject and whether now is in its window
NilCert == [kind |-> "nil", cluster |-> "", agent |-> "", inWindow |-> FALSE]
GarbageCert == [kind |-> "garbage", cluster |-> "", agent |-> "", inWindow |-> FALSE]
Certificates ==
    {NilCert, GarbageCert} \cup
    [kind : {"cert"}, cluster : {"", "testcluster"}, agent : AgentNames, inWindow : BOOLEAN]
AgentNameEntries == {"nil", ""} \cup AgentNames

NoSecret ==
    [exists |-> FALSE, kubeconfig |-> "nil", tlsKey |-> "nil", tlsCrt |-> NilCert,
     agentName |-> "nil"]
IdentitySecrets ==
    {NoSecret} \cup
    [exists : {TRUE}, kubeconfig : DataEntries, tlsKey : DataEntries,
     tlsCrt : Certificates, agentName : AgentNameEntries]

\* hasValidHubClientConfig of a manager with the agent name agentName
hasValidHubClientConfig(secret, agentName) ==
    IF ~secret.exists THEN FALSE
    ELSE IF secret.kubeconfig = "nil" THEN FALSE
    ELSE IF secret.tlsKey = "nil" THEN FALSE
    ELSE IF secret.tlsCrt.kind = "nil" THEN FALSE
    ELSE IF secret.agentName = "nil" THEN FALSE
    ELSE IF secret.tlsCrt.kind = "garbage" THEN FALSE
    ELSE IF secret.tlsCrt.cluster # managerClusterName \/ secret.tlsCrt.agent # agentName THEN FALSE
    ELSE secret.tlsCrt.inWindow

\* the agent names newCertificateManager may give the manager
ManagerAgentNames(secret) ==
    IF secret.exists /\ secret.agentName # "nil" THEN {secret.agentName} ELSE AgentNames

\* the identity secrets in use while the controller runs
SecretsInPlay ==
    {NoSecret} \cup
    {[exists |-> TRUE, kubeconfig |-> "set", tlsKey |-> "set",
      tlsCrt |-> [kind |-> "cert", cluster |-> c, agent |-> "agnt1", inWindow |-> w], agentName |-> "agnt1"] :
        c \in {"", "testcluster"}, w \in BOOLEAN}

\* what start comes to for a manager that finds the secret as it is:
\* a valid identity starts the rotation; an invalid one starts the
\* bootstrap, whose poll ends with a valid identity or with an error
StartsFor(secret) ==
    {"configError"} \cup
    UNION {IF hasValidHubClientConfig(secret, agentName)
           THEN {"rotating"}
           ELSE {"bootstrappedRotating", "bootstrapFailed"} : agentName \in ManagerAgentNames(secret)}

\* the secrets the poll of the bootstrap can have ended on
SecretsAfter(start, secret) ==
    IF start = "bootstrappedRotating"
    THEN {x \in SecretsInPlay : \E agentName \in ManagerAgentNames(secret) :
              hasValidHubClientConfig(x, agentName)}
    ELSE {secret}

\* rotation sub-controllers running after a pass that issued these writes
RotationsAfter(writes) ==
    LET stopped == IF "rotate.stop" \in writes /\ rotations > 0 THEN 1 ELSE 0
        started == IF "rotate.start" \in writes THEN 1 ELSE 0
    IN  rotations - stopped + started

\* the sub-controllers running at each moment of a pass: <<bootstraps, rotations>>
PassMoments(writes) ==
    (IF "bootstrap.start" \in writes THEN <<<<1, rotations>>, <<0, rotations>>>> ELSE <<>>)
        \o <<<<0, RotationsAfter(writes)>>>>

\* what newCertificateManager and certManager.start come to
StartResults == {"rotating", "bootstrappedRotating", "bootstrapFailed", "configError"}

CertResult(a, managers, writes, err) ==
    [addon |-> a, managers |-> managers, writes |-> writes, err |-> err]

\* removeAddonFinalizer of the certificate manager
certRemoveAddonFinalizer(addon, managers, writes) ==
    LET copiedFinalizers == WithoutFinalizer(addon.finalizers, spokeRegistrationFinalizer) IN
    IF Len(addon.finalizers) # Len(copiedFinalizers)
    THEN IF UpdateConflicts(addon, certAddon)
         THEN CertResult(certAddon, managers, writes \cup {"addon.update"}, TRUE)
         ELSE CertResult(UpdatedAddon([addon EXCEPT !.finalizers = copiedFinalizers], certAddon),
                         managers, writes \cup {"addon.update"}, FALSE)
    ELSE CertResult(certAddon, managers, writes, FALSE)

\* sync from the point where registration is taken as enabled
RegistrationOutcome(addon, start) ==
    IF ~addon.deleting /\ ~HasFinalizer(addon.finalizers, spokeRegistrationFinalizer)
    THEN IF UpdateConflicts(addon, certAddon)
         THEN CertResult(certAddon, csrControllers, {"addon.update"}, TRUE)
         ELSE CertResult(
                 UpdatedAddon([addon EXCEPT !.finalizers = Append(@, spokeRegistrationFinalizer)],
                              certAddon),
                 csrControllers, {"addon.update"}, FALSE)
    ELSE IF addon.deleting
    THEN certRemoveAddonFinalizer(addon, {},
                                  IF csrControllers # {} THEN {"rotate.stop"} ELSE {})
    ELSE IF start = "configError"
    THEN CertResult(certAddon, csrControllers, {}, TRUE)
    ELSE IF start = "bootstrapFailed"
    THEN CertResult(certAddon, csrControllers, {"bootstrap.start", "bootstrap.stop"}, TRUE)
    ELSE IF start = "bootstrappedRotating"
    THEN CertResult(certAddon, {addonName},
                    {"bootstrap.start", "bootstrap.stop", "rotate.start"}, FALSE)
    ELSE CertResult(certAddon, {addonName}, {"rotate.start"}, FALSE)

\* sync, reading enable_registration from the add-on's annotations
CertManagerOutcome(start) ==
    IF ~certAddonCache.exists THEN CertResult(certAddon, csrControllers, {}, FALSE)
    ELSE IF DOMAIN certAddonCache.annotations = {}
    THEN CertResult(certAddon, csrControllers, {}, FALSE)
    ELSE IF MapValue(certAddonCache.annotations, "enable_registration") = "false"
    THEN CertResult(certAddon, csrControllers, {}, FALSE)
    ELSE RegistrationOutcome(certAddonCache, start)

\* sync, reading enable_registration from the add-on's config map
CertManagerConfigMapOutcome(start) ==
    IF ~certAddonCache.exists THEN CertResult(certAddon, csrControllers, {}, FALSE)
    ELSE IF ~certConfigMap.exists THEN CertResult(certAddon, csrControllers, {}, FALSE)
    ELSE IF MapValue(certConfigMap.data, "enable_registration") = "false"
    THEN CertResult(certAddon, csrControllers, {}, FALSE)
    ELSE RegistrationOutcome(certAddonCache, start)

CertManagerSync ==
    /\ certAddon.rv < MaxRV
    /\ \E start \in StartsFor(certSecret) :
          LET r == CertManagerOutcome(start) IN
          /\ RotationsAfter(r.writes) <= MaxRotations
          /\ certAddon' = r.addon
          /\ csrControllers' = r.managers
          /\ rotations' = RotationsAfter(r.writes)
          /\ \E after \in SecretsAfter(IF "bootstrap.start" \in r.writes /\ ~r.err
                                         THEN "bootstrappedRotating" ELSE "none", certSecret) :
                certSecret' = after
          /\ last' = [op |-> "CertManagerSync", writes |-> r.writes, err |-> r.err]
    /\ UNCHANGED <<certAddonCache, certConfigMap>>

CertManagerConfigMapSync ==
    /\ certAddon.rv < MaxRV
    /\ \E start \in StartsFor(certSecret) :
          LET r == CertManagerConfigMapOutcome(start) IN
          /\ RotationsAfter(r.writes) <= MaxRotations
          /\ certAddon' = r.addon
          /\ csrControllers' = r.managers
          /\ rotations' = RotationsAfter(r.writes)
          /\ \E after \in SecretsAfter(IF "bootstrap.start" \in r.writes /\ ~r.err
                                         THEN "bootstrappedRotating" ELSE "none", certSecret) :
                certSecret' = after
          /\ last' = [op |-> "CertManagerConfigMapSync", writes |-> r.writes, err |-> r.err]
    /\ UNCHANGED <<certAddonCache, certConfigMap>>

CertInformerSync ==
    /\ certAddonCache # certAddon
    /\ certAddonCache' = certAddon
    /\ last' = EnvStep
    /\ UNCHANGED <<certAddon, certConfigMap, csrControllers, certSecret, rotations>>

CertAddonCreate ==
    /\ ~certAddon.exists
    /\ certAddon.rv < MaxRV
    /\ \E a \in AddonAnnotations :
          certAddon' = [exists |-> TRUE, deleting |-> FALSE, finalizers |-> <<>>,
                        annotations |-> a, rv |-> certAddon.rv + 1]
    /\ last' = EnvStep
    /\ UNCHANGED <<certAddonCache, certConfigMap, csrControllers, certSecret, rotations>>

CertAddonDelete ==
    /\ certAddon.exists /\ ~certAddon.deleting
    /\ certAddon.rv < MaxRV
    /\ certAddon' = IF certAddon.finalizers = <<>> THEN NoAddon(certAddon.rv + 1)
                    ELSE [certAddon EXCEPT !.deleting = TRUE, !.rv = certAddon.rv + 1]
    /\ last' = EnvStep
    /\ UNCHANGED <<certAddonCache, certConfigMap, csrControllers, certSecret, rotations>>

CertConfigMapChange ==
    /\ \E cm \in ConfigMaps : cm # certConfigMap /\ certConfigMap' = cm
    /\ last' = EnvStep
    /\ UNCHANGED <<certAddon, certAddonCache, csrControllers, certSecret, rotations>>

\* the identity secret is written, expires or is removed
CertSecretChange ==
    /\ \E x \in SecretsInPlay : x # certSecret /\ certSecret' = x
    /\ last' = EnvStep
    /\ UNCHANGED <<certAddon, certAddonCache, certConfigMap, csrControllers, rotations>>

CertInit ==
    /\ certAddon = NoAddon(0)
    /\ certAddonCache = NoAddon(0)
    /\ certConfigMap = [exists |-> FALSE, data |-> NoAnnotations]
    /\ csrControllers = {}
    /\ certSecret = NoSecret
    /\ rotations = 0

\* the probe applied to any identity secret, for a manager built on it
NotProbed == [agentName |-> "", result |-> "none"]

ProbeSecretWritten ==
    /\ \E x \in IdentitySecrets : x # certSecret /\ certSecret' = x
    /\ probed' = NotProbed
    /\ last' = EnvStep

ProbeCalled ==
    /\ \E agentName \in ManagerAgentNames(certSecret) :
          probed' = [agentName |-> agentName,
                     result |-> IF hasValidHubClientConfig(certSecret, agentName)
                                THEN "valid" ELSE "invalid"]
    /\ last' = [op |-> "ProbeCalled", writes |-> {}, err |-> FALSE]
    /\ UNCHANGED certSecret

---------------------------------------------------------------------------
(* RegistrationDeployReconciler: registrationAgentDeployController        *)

registrationFinalizer == "addon.open-cluster-management.io/registration-cleanup"

\* the resources on the hub that the controller applies or deletes
HubResources == {"clusterRole", "clusterRoleBinding", "configMap", "role", "roleBinding"}

\* what AgentBootstrapKubeConfig returns: no bytes, a kubeconfig, or an error
BootstrapAnswers == {"none", "kc1", "kc2", "error"}

RegEnvs == [cluster : BOOLEAN, bootstrap : BootstrapAnswers, rbac : BOOLEAN]

NoRegWork == [exists |-> FALSE, payload |-> <<>>, label |-> "", owner |-> FALSE]

\* the work built from registrationAgentFiles: the bootstrap secret rendered
\* with the base64 of the kubeconfig, one manifest
RegistrationWork(kubeConfigData) ==
    [exists |-> TRUE, payload |-> <<<<"json", "bootstrap-secret", <<"base64", kubeConfigData>>>>>>,
     label |-> "", owner |-> TRUE]

RegResult(a, w, h, writes, err) ==
    [addon |-> a, work |-> w, hub |-> h, writes |-> writes, err |-> err]

\* one Delete in removeRegistrationResources: st is [hub, writes, err, done];
\* failing is the resource whose call the server fails in this pass
RegDelete(st, resource, failing) ==
    IF st.done THEN st
    ELSE IF resource = failing
    THEN [st EXCEPT !.writes = @ \cup {resource \o ".delete"}, !.err = "failed", !.done = TRUE]
    ELSE [st EXCEPT !.hub[resource] = FALSE,
                    !.writes = @ \cup {resource \o ".delete"},
                    !.err = IF st.hub[resource] THEN "nil" ELSE "notFound"]

\* removeRegistrationResources: the three deletes assign the function's err;
\* the deletes of the role and the role binding declare an err of their own,
\* and the function ends with return err
removeRegistrationResources(failing) ==
    LET s0 == [hub |-> hub, writes |-> {}, err |-> "nil", done |-> FALSE]
        s1 == RegDelete(s0, "clusterRole", failing)
        s2 == RegDelete(s1, "clusterRoleBinding", failing)
        s3 == RegDelete(s2, "configMap", failing)
        s4 == IF regEnv.rbac THEN RegDelete(s3, "role", failing) ELSE s3
        s5 == IF regEnv.rbac THEN RegDelete(s4, "roleBinding", failing) ELSE s4
    IN  [hub |-> s5.hub, writes |-> s5.writes,
         err |-> IF s5.done THEN TRUE ELSE s3.err # "nil"]

removeRegistrationFinalizer(addon, h, writes) ==
    LET copiedFinalizers == WithoutFinalizer(addon.finalizers, registrationFinalizer) IN
    IF Len(addon.finalizers) # Len(copiedFinalizers)
    THEN IF UpdateConflicts(addon, regAddon)
         THEN RegResult(regAddon, regWork, h, writes \cup {"addon.update"}, TRUE)
         ELSE RegResult(UpdatedAddon([addon EXCEPT !.finalizers = copiedFinalizers], regAddon),
                        regWork, h, writes \cup {"addon.update"}, FALSE)
    ELSE RegResult(regAddon, regWork, h, writes, FALSE)

\* one apply on the hub: st is [hub, writes, errs, done]; a resource that is
\* there as required is left alone; returns says whether an error ends the pass
RegApply(st, resource, failing, returns) ==
    IF st.done THEN st
    ELSE IF resource = failing
    THEN [st EXCEPT !.errs = TRUE, !.done = returns]
    ELSE IF st.hub[resource] THEN st
    ELSE [st EXCEPT !.hub[resource] = TRUE, !.writes = @ \cup {resource \o ".apply"}]

\* sync from "apply config/acls on hub" to its end
ApplyHubResources(w, writes, failing) ==
    LET s0 == [hub |-> hub, writes |-> writes, errs |-> FALSE, done |-> FALSE]
        s1 == RegApply(s0, "clusterRole", failing, FALSE)
        s2 == RegApply(s1, "clusterRoleBinding", failing, FALSE)
        s3 == IF regEnv.rbac THEN RegApply(s2, "role", failing, TRUE) ELSE s2
        s4 == IF regEnv.rbac THEN RegApply(s3, "roleBinding", failing, TRUE) ELSE s3
    IN  RegResult(regAddon, w, s4.hub, s4.writes, s4.errs)

\* sync(clusterName) with the hub call on failing failing ("none": no call fails)
RegOutcome(failing) ==
    IF ~regAddonCache.exists THEN RegResult(regAddon, regWork, hub, {}, FALSE)
    ELSE IF ~regEnv.cluster THEN RegResult(regAddon, regWork, hub, {}, FALSE)
    ELSE IF ~regAddonCache.deleting /\ ~HasFinalizer(regAddonCache.finalizers, registrationFinalizer)
    THEN IF UpdateConflicts(regAddonCache, regAddon)
         THEN RegResult(regAddon, regWork, hub, {"addon.update"}, TRUE)
         ELSE RegResult(UpdatedAddon([regAddonCache EXCEPT
                            !.finalizers = Append(@, registrationFinalizer)], regAddon),
                        regWork, hub, {"addon.update"}, FALSE)
    ELSE IF regAddonCache.deleting
    THEN LET r == removeRegistrationResources(failing) IN
         IF r.err THEN RegResult(regAddon, regWork, r.hub, r.writes, TRUE)
         ELSE removeRegistrationFinalizer(regAddonCache, r.hub, r.writes)
    ELSE IF regEnv.bootstrap = "error" THEN RegResult(regAddon, regWork, hub, {}, TRUE)
    ELSE IF regEnv.bootstrap = "none" THEN ApplyHubResources(regWork, {}, failing)
    ELSE LET new == RegistrationWork(regEnv.bootstrap) IN
         IF ~regWork.exists THEN RegResult(regAddon, new, hub, {"work.create"}, FALSE)
         ELSE IF ManifestsEqual(regWork.payload, new.payload)
         THEN RegResult(regAddon, regWork, hub, {}, FALSE)
         ELSE ApplyHubResources(new, {"work.update"}, failing)

RegSync ==
    /\ regAddon.rv < MaxRV
    /\ \E failing \in HubResources \cup {"none"} :
          LET r == RegOutcome(failing) IN
          /\ regAddon' = r.addon
          /\ regWork' = r.work
          /\ hub' = r.hub
          /\ last' = [op |-> "RegSync", writes |-> r.writes, err |-> r.err,
                      fresh |-> (regAddonCache = regAddon)]
    /\ UNCHANGED <<regAddonCache, regEnv>>

RegInformerSync ==
    /\ regAddonCache # regAddon
    /\ regAddonCache' = regAddon
    /\ UNCHANGED <<regAddon, regWork, hub, regEnv, last>>

RegAddonCreate ==
    /\ ~regAddon.exists
    /\ regAddon.rv < MaxRV
    /\ regAddon' = [exists |-> TRUE, deleting |-> FALSE, finalizers |-> <<>>,
                    annotations |-> NoAnnotations, rv |-> regAddon.rv + 1]
    /\ last' = EnvStep
    /\ UNCHANGED <<regAddonCache, regWork, hub, regEnv>>

RegAddonDelete ==
    /\ regAddon.exists /\ ~regAddon.deleting
    /\ regAddon.rv < MaxRV
    /\ regAddon' = IF regAddon.finalizers = <<>> THEN NoAddon(regAddon.rv + 1)
                   ELSE [regAddon EXCEPT !.deleting = TRUE, !.rv = regAddon.rv + 1]
    /\ last' = EnvStep
    /\ UNCHANGED <<regAddonCache, regWork, hub, regEnv>>

\* the cluster comes or goes, or the add-on answers differently
RegEnvChange ==
    /\ \E e \in RegEnvs : e # regEnv /\ regEnv' = e
    /\ last' = EnvStep
    /\ UNCHANGED <<regAddon, regAddonCache, regWork, hub>>

\* the add-on's per-cluster config map is written on the hub by its owner
HubConfigMapCreated ==
    /\ ~hub["configMap"]
    /\ hub' = [hub EXCEPT !["configMap"] = TRUE]
    /\ last' = EnvStep
    /\ UNCHANGED <<regAddon, regAddonCache, regWork, regEnv>>

RegInit ==
    /\ regAddon = NoAddon(0)
    /\ regAddonCache = NoAddon(0)
    /\ regWork = NoRegWork
    /\ hub = [r \in HubResources |-> FALSE]
    /\ regEnv = [cluster |-> TRUE, bootstrap |-> "none", rbac |-> FALSE]

---------------------------------------------------------------------------
(* The certificate manager's reconciles as its worker runs them: the      *)
(* controller is run with one worker (spokeagent.go, Run(ctx, 1)), and     *)
(* certManager.start polls inside sync.  Both add-ons have registration    *)
(* enabled; the lister shows what storage holds.                           *)

KeyAddons == {"addonA", "addonB"}

NoKeyAddon == [exists |-> FALSE, deleting |-> FALSE, finalizer |-> FALSE]

Idle == [key |-> "none", polling |-> FALSE]

NoSubControllers == [bootstrap |-> 0, rotation |-> 0]

\* one more rotation sub-controller, counted up to MaxRotations
OneMoreRotation(n) == IF n < MaxRotations THEN n + 1 ELSE n

\* go clientCertForHubController.Run(certCtx, 1) at the end of start: with
\* the root context cancelled Run returns at once
RotationStarted(subs) ==
    IF rootDone THEN [subs EXCEPT !.bootstrap = 0]
    ELSE [bootstrap |-> 0, rotation |-> OneMoreRotation(subs.rotation)]

\* the worker takes a key and runs sync(key) until it returns or until start
\* enters wait.PollImmediateInfinite
WorkerTakeKey(k) ==
    /\ certWorker = Idle
    /\ ~rootDone
    /\ k \in certQueue
    /\    LET addon == keyAddon[k] IN
          IF ~addon.exists
          THEN /\ certQueue' = certQueue \ {k}
               /\ UNCHANGED <<keyAddon, certWorker, subControllers, registered>>
          ELSE IF ~addon.deleting /\ ~addon.finalizer
          THEN \* the finalizer is added; the update comes back as an event
               /\ keyAddon' = [keyAddon EXCEPT ![k].finalizer = TRUE]
               /\ certQueue' = certQueue
               /\ UNCHANGED <<certWorker, subControllers, registered>>
          ELSE IF addon.deleting
          THEN /\ subControllers' =
                     [subControllers EXCEPT ![k].rotation =
                         IF k \in registered /\ @ > 0 THEN @ - 1 ELSE @]
               /\ registered' = registered \ {k}
               /\ keyAddon' = [keyAddon EXCEPT ![k] = NoKeyAddon]
               /\ certQueue' = certQueue \ {k}
               /\ UNCHANGED certWorker
          ELSE IF identityValid[k]
          THEN /\ subControllers' = [subControllers EXCEPT ![k] = RotationStarted(@)]
               /\ registered' = registered \cup {k}
               /\ certQueue' = certQueue \ {k}
               /\ UNCHANGED <<keyAddon, certWorker>>
          ELSE /\ subControllers' = [subControllers EXCEPT ![k].bootstrap = 1]
               /\ certWorker' = [key |-> k, polling |-> TRUE]
               /\ certQueue' = certQueue \ {k}
               /\ UNCHANGED <<keyAddon, registered>>
    /\ last' = [op |-> "certSync", writes |-> {}, err |-> FALSE]
    /\ UNCHANGED <<identityValid, rootDone>>

WorkerTake == \E k \in KeyAddons : WorkerTakeKey(k)

\* the poll finds the identity valid: stopBootstrap, the rotation controller
\* is started, the manager is registered and sync returns
PollReturns ==
    /\ certWorker.polling
    /\ identityValid[certWorker.key]
    /\ subControllers' = [subControllers EXCEPT ![certWorker.key] = RotationStarted(@)]
    /\ registered' = registered \cup {certWorker.key}
    /\ certWorker' = Idle
    /\ last' = [op |-> "certPoll", writes |-> {}, err |-> FALSE]
    /\ UNCHANGED <<keyAddon, identityValid, certQueue, rootDone>>

\* the Get of the secret inside the poll fails: stopBootstrap, sync returns
\* the error and the key is queued again
PollFails ==
    /\ certWorker.polling
    /\ subControllers' = [subControllers EXCEPT ![certWorker.key].bootstrap = 0]
    /\ certQueue' = certQueue \cup {certWorker.key}
    /\ certWorker' = Idle
    /\ last' = [op |-> "certPoll", writes |-> {}, err |-> TRUE]
    /\ UNCHANGED <<keyAddon, identityValid, registered, rootDone>>

\* the bootstrap sub-controller has had its CSR approved and signed and has
\* written the identity secret
IdentityIssued ==
    /\ \E k \in KeyAddons :
          /\ subControllers[k].bootstrap > 0
          /\ ~identityValid[k]
          /\ identityValid' = [identityValid EXCEPT ![k] = TRUE]
    /\ last' = EnvStep
    /\ UNCHANGED <<keyAddon, certQueue, certWorker, subControllers, registered, rootDone>>

\* the certificate of an identity runs out or its secret is removed
IdentityLost ==
    /\ \E k \in KeyAddons :
          /\ identityValid[k]
          /\ identityValid' = [identityValid EXCEPT ![k] = FALSE]
    /\ last' = EnvStep
    /\ UNCHANGED <<keyAddon, certQueue, certWorker, subControllers, registered, rootDone>>

KeyAddonCreated ==
    /\ \E k \in KeyAddons :
          /\ ~keyAddon[k].exists
          /\ keyAddon' = [keyAddon EXCEPT ![k].exists = TRUE]
          /\ certQueue' = certQueue \cup {k}
    /\ last' = EnvStep
    /\ UNCHANGED <<identityValid, certWorker, subControllers, registered, rootDone>>

KeyAddonDeleted ==
    /\ \E k \in KeyAddons :
          /\ keyAddon[k].exists /\ ~keyAddon[k].deleting
          /\ keyAddon' = [keyAddon EXCEPT ![k] =
                             IF @.finalizer THEN [@ EXCEPT !.deleting = TRUE] ELSE NoKeyAddon]
          /\ certQueue' = certQueue \cup {k}
    /\ last' = EnvStep
    /\ UNCHANGED <<identityValid, certWorker, subControllers, registered, rootDone>>

\* the informer's resync hands the add-on to the queue again
KeyResync ==
    /\ \E k \in KeyAddons :
          /\ keyAddon[k].exists
          /\ k \notin certQueue
          /\ certQueue' = certQueue \cup {k}
    /\ last' = EnvStep
    /\ UNCHANGED <<keyAddon, identityValid, certWorker, subControllers, registered, rootDone>>

\* the root context is cancelled: every context derived from it is done, so
\* the controllers run on them and the update routines of the lease updater
\* return; the poll of start takes no context
RootCancel ==
    /\ ~rootDone
    /\ rootDone' = TRUE
    /\ subControllers' = [k \in KeyAddons |-> NoSubControllers]
    /\ loops' = {}
    /\ last' = [op |-> "cancel", writes |-> {}, err |-> FALSE]
    /\ UNCHANGED <<keyAddon, identityValid, certQueue, certWorker, registered>>

WorkerInit ==
    /\ keyAddon = [k \in KeyAddons |-> NoKeyAddon]
    /\ identityValid = [k \in KeyAddons |-> FALSE]
    /\ certQueue = {}
    /\ certWorker = Idle
    /\ subControllers = [k \in KeyAddons |-> NoSubControllers]
    /\ registered = {}
    /\ rootDone = FALSE

---------------------------------------------------------------------------
(* helpers.UpdateAddonStatus, attempt by attempt, called at the same time  *)
(* by the hub's leaseController and the spoke's addonLeaseController       *)

StatusWriters == {"hub", "observer"}

\* the conditions each reconciler passes to UpdateAddonConditionFn
WriterConditions(w) ==
    IF w = "hub" THEN {AvailableUnknown}
    ELSE {AddonLeaseNotFound, ManagedClusterLeaseUpdated, AddonLeaseUpdateStopped}

\* retry.DefaultBackoff.Steps: the attempts RetryOnConflict makes
retrySteps == 4

NotCalling ==
    [pc |-> "out", read |-> [rv |-> 0, conditions |-> NoConditions],
     cond |-> AvailableUnknown, attempts |-> 0, updated |-> FALSE, err |-> FALSE]

\* (faulty variant) the new status holds the given condition alone
NewStatusOnlyCondition(read, cond) == UpdateAddonConditionFn(cond, NoConditions)

\* newStatus: a deep copy of the status read, with the update function applied
NewStatus(read, cond) == UpdateAddonConditionFn(cond, read.conditions)

\* a reconciler calls UpdateAddonStatus with one condition
StatusCall(w) ==
    /\ stWriter[w].pc = "out"
    /\ \E cond \in WriterConditions(w) :
          stWriter' = [stWriter EXCEPT ![w] =
                          [NotCalling EXCEPT !.pc = "get", !.cond = cond]]
    /\ last' = [op |-> "status.call", writes |-> {}, err |-> FALSE]
    /\ UNCHANGED stAddon

\* an attempt begins: Get of the add-on from storage
StatusGet(w) ==
    /\ stWriter[w].pc = "get"
    /\ stWriter' = [stWriter EXCEPT ![w].pc = "update", ![w].read = stAddon]
    /\ last' = [op |-> "status.get", writes |-> {}, err |-> FALSE]
    /\ UNCHANGED stAddon

\* the attempt ends: equal statuses return without a write; else UpdateStatus,
\* which storage refuses with a conflict for a stale resourceVersion; a
\* conflict starts the next attempt until the steps are used up
StatusAttempt(w) ==
    /\ stWriter[w].pc = "update"
    /\ LET me == stWriter[w]
           newStatus == NewStatus(me.read, me.cond)
       IN  IF newStatus = me.read.conditions
           THEN /\ stWriter' = [stWriter EXCEPT ![w].pc = "out"]
                /\ last' = [op |-> "status.attempt", writes |-> {}, err |-> FALSE]
                /\ UNCHANGED stAddon
           ELSE IF me.read.rv # stAddon.rv
           THEN /\ stWriter' = [stWriter EXCEPT
                       ![w].attempts = @ + 1,
                       ![w].pc = IF me.attempts + 1 >= retrySteps THEN "out" ELSE "get",
                       ![w].err = me.attempts + 1 >= retrySteps]
                /\ last' = [op |-> "status.attempt", writes |-> {"addon.updateStatus"},
                            err |-> TRUE]
                /\ UNCHANGED stAddon
           ELSE /\ stAddon.rv < MaxRV
                /\ stAddon' = [rv |-> stAddon.rv + 1, conditions |-> newStatus]
                /\ stWriter' = [stWriter EXCEPT ![w].pc = "out", ![w].updated = TRUE]
                /\ last' = [op |-> "status.attempt", writes |-> {"addon.updateStatus"},
                            err |-> FALSE]

StatusInit ==
    /\ stAddon = [rv |-> 0, conditions |-> NoConditions]
    /\ stWriter = [w \in StatusWriters |-> NotCalling]

---------------------------------------------------------------------------
(* The freshness test of the hub's leaseController as a function of        *)
(* spec.leaseDurationSeconds (int32), renewTime and the clock              *)

\* lease durations: unset, small, and around the values at which five times
\* the duration passes 2^31 and 2^32, up to the largest int32
DurationSamples ==
    {0, 1, 2, 60, 429496729, 429496730, 858993459, 858993460, 2147483647}

RenewSamples == {0, 1}

\* seconds elapsed since renewTime: none, and around the stated grace period
\* where the clock can reach it
ElapsedSamples(seconds) ==
    LET effective == IF seconds = 0 THEN 60 ELSE seconds IN
    {0, 1, 299, 300, 301, 2147483646}
        \cup (IF effective <= 429496729
              THEN {5 * effective - 1, 5 * effective, 5 * effective + 1}
              ELSE {})

NotChecked == [called |-> FALSE, seconds |-> 0, renewTime |-> 0, now |-> 0, healthy |-> FALSE]

\* one pass of sync over one cluster with a listed lease
GraceCheck ==
    /\ \E seconds \in DurationSamples, renewTime \in RenewSamples :
          \E elapsed \in ElapsedSamples(seconds) :
              graceCheck' = [called |-> TRUE, seconds |-> seconds, renewTime |-> renewTime,
                             now |-> renewTime + elapsed,
                             healthy |-> HealthyAt(renewTime + elapsed, renewTime, seconds)]
    /\ last' = [op |-> "graceCheck", writes |-> {}, err |-> FALSE]

---------------------------------------------------------------------------
(* ManagedClusterReconciler: managedClusterController on the hub           *)

managedClusterFinalizer == "cluster.open-cluster-management.io/addon-resource-cleanup"

\* manifests/managedcluster-namespace.yaml and staticFiles, in the order applied
ClusterFiles == <<"namespace", "clusterRole", "clusterRoleBinding">>
ClusterResources == {ClusterFiles[i] : i \in 1..Len(ClusterFiles)}

\* the call of the pass that the API server answers with an error other than
\* NotFound or Conflict, if any
ClusterFailures == ClusterResources \cup {"update", "none"}

\* (faulty variant) both deletes are always issued
removeManagedClusterResourcesBoth(failing) ==
    [rbac |-> [clusterRBAC EXCEPT !["clusterRole"] = (failing = "clusterRole") /\ @,
                                   !["clusterRoleBinding"] = (failing = "clusterRoleBinding") /\ @],
     writes |-> {"clusterRole.delete", "clusterRoleBinding.delete"},
     err |-> failing \in {"clusterRole", "clusterRoleBinding"}]

\* removeManagedClusterResources: each Delete is followed by
\* `if !errors.IsNotFound(err) { return err }`, which also returns, with nil,
\* when the Delete succeeded
removeManagedClusterResources(failing) ==
    IF failing = "clusterRole"
    THEN [rbac |-> clusterRBAC, writes |-> {"clusterRole.delete"}, err |-> TRUE]
    ELSE IF clusterRBAC["clusterRole"]
    THEN [rbac |-> [clusterRBAC EXCEPT !["clusterRole"] = FALSE],
          writes |-> {"clusterRole.delete"}, err |-> FALSE]
    ELSE IF failing = "clusterRoleBinding"
    THEN [rbac |-> clusterRBAC,
          writes |-> {"clusterRole.delete", "clusterRoleBinding.delete"}, err |-> TRUE]
    ELSE [rbac |-> [clusterRBAC EXCEPT !["clusterRoleBinding"] = FALSE],
          writes |-> {"clusterRole.delete", "clusterRoleBinding.delete"}, err |-> FALSE]

\* ManagedClusters().Update of the copy obj
ClusterUpdate(obj, rbac, writes, failing) ==
    IF failing = "update" \/ UpdateConflicts(obj, mc)
    THEN [mc |-> mc, rbac |-> rbac, writes |-> writes \cup {"cluster.update"}, err |-> TRUE]
    ELSE [mc |-> UpdatedAddon(obj, mc), rbac |-> rbac,
          writes |-> writes \cup {"cluster.update"}, err |-> FALSE]

\* removeManagedClusterFinalizer
removeManagedClusterFinalizer(rbac, writes, failing) ==
    LET copied == WithoutFinalizer(mcCache.finalizers, managedClusterFinalizer) IN
    IF Len(mcCache.finalizers) # Len(copied)
    THEN ClusterUpdate([mcCache EXCEPT !.finalizers = copied], rbac, writes, failing)
    ELSE [mc |-> mc, rbac |-> rbac, writes |-> writes, err |-> FALSE]

\* resourceapply.ApplyDirectly over the three files: every file is applied,
\* a failing one is reported and the others still applied
ApplyClusterFiles(failing) ==
    [mc |-> mc,
     rbac |-> [r \in ClusterResources |-> clusterRBAC[r] \/ r # failing],
     writes |-> {r \in ClusterResources : ~clusterRBAC[r]},
     err |-> failing \in ClusterResources]

\* managedClusterController.sync
ClusterOutcome(failing) ==
    IF ~mcCache.exists
    THEN [mc |-> mc, rbac |-> clusterRBAC, writes |-> {}, err |-> FALSE]
    ELSE IF ~mcCache.deleting /\ ~HasFinalizer(mcCache.finalizers, managedClusterFinalizer)
    THEN ClusterUpdate([mcCache EXCEPT !.finalizers = Append(@, managedClusterFinalizer)],
                       clusterRBAC, {}, failing)
    ELSE IF mcCache.deleting
    THEN LET d == removeManagedClusterResources(failing) IN
         IF d.err
         THEN [mc |-> mc, rbac |-> d.rbac, writes |-> d.writes, err |-> TRUE]
         ELSE removeManagedClusterFinalizer(d.rbac, d.writes, failing)
    ELSE ApplyClusterFiles(failing)

ClusterSync ==
    /\ mc.rv < MaxRV
    /\ \E failing \in ClusterFailures :
          LET r == ClusterOutcome(failing) IN
          /\ mc' = r.mc
          /\ clusterRBAC' = r.rbac
          /\ last' = [op |-> "ClusterSync", writes |-> r.writes, err |-> r.err,
                      fresh |-> (mcCache = mc)]
    /\ UNCHANGED mcCache

ClusterInformerSync ==
    /\ mcCache # mc
    /\ mcCache' = mc
    /\ UNCHANGED <<mc, clusterRBAC, last>>

\* a ManagedCluster is created, with or without a finalizer of another owner
ClusterCreate ==
    /\ ~mc.exists
    /\ mc.rv < MaxRV
    /\ \E f \in {<<>>, <<"other">>} :
          mc' = [exists |-> TRUE, deleting |-> FALSE, finalizers |-> f,
                 annotations |-> NoAnnotations, rv |-> mc.rv + 1]
    /\ last' = EnvStep
    /\ UNCHANGED <<mcCache, clusterRBAC>>

ClusterDelete ==
    /\ mc.exists /\ ~mc.deleting
    /\ mc.rv < MaxRV
    /\ mc' = IF mc.finalizers = <<>> THEN NoAddon(mc.rv + 1)
             ELSE [mc EXCEPT !.deleting = TRUE, !.rv = mc.rv + 1]
    /\ last' = EnvStep
    /\ UNCHANGED <<mcCache, clusterRBAC>>

ClusterInit ==
    /\ mc = NoAddon(0)
    /\ mcCache = NoAddon(0)
    /\ clusterRBAC = [r \in ClusterResources |-> FALSE]

---------------------------------------------------------------------------
(* ClusterManagementReconciler: clusterManagementController on the hub     *)

NoClusterManagement(rv) == [exists |-> FALSE, spec |-> "empty", rv |-> rv]

\* ClusterManagementAddOnSpec{} and a spec written by somebody else
ClusterManagementSpecs == {"empty", "configured"}

\* the Create call may be failed by the server for a reason of its own
ClusterManagementFailures == {"create", "none"}

\* (faulty variant) a create that replaces the stored object
CreateClusterManagementReplaces(failing) ==
    IF failing = "create"
    THEN [obj |-> cmAddOn, err |-> TRUE]
    ELSE [obj |-> [exists |-> TRUE, spec |-> "empty", rv |-> cmAddOn.rv + 1], err |-> FALSE]

\* ClusterManagementAddOns().Create of the object with the empty spec:
\* AlreadyExists when the name is stored
CreateClusterManagement(failing) ==
    IF failing = "create" \/ cmAddOn.exists
    THEN [obj |-> cmAddOn, err |-> TRUE]
    ELSE [obj |-> [exists |-> TRUE, spec |-> "empty", rv |-> cmAddOn.rv + 1], err |-> FALSE]

\* clusterManagementController.sync
ClusterManagementOutcome(failing) ==
    IF ~cmAddOnCache.exists
    THEN LET c == CreateClusterManagement(failing) IN
         [obj |-> c.obj, writes |-> {"clustermanagement.create"}, err |-> c.err]
    ELSE [obj |-> cmAddOn, writes |-> {}, err |-> FALSE]

ClusterManagementSync ==
    /\ cmAddOn.rv < MaxRV
    /\ \E failing \in ClusterManagementFailures :
          LET r == ClusterManagementOutcome(failing) IN
          /\ cmAddOn' = r.obj
          /\ last' = [op |-> "ClusterManagementSync", writes |-> r.writes, err |-> r.err,
                      fresh |-> (cmAddOnCache = cmAddOn)]
    /\ UNCHANGED cmAddOnCache

ClusterManagementInformerSync ==
    /\ cmAddOnCache # cmAddOn
    /\ cmAddOnCache' = cmAddOn
    /\ UNCHANGED <<cmAddOn, last>>

\* somebody else creates the object, changes its spec or deletes it
ClusterManagementCreatedByOther ==
    /\ ~cmAddOn.exists
    /\ cmAddOn.rv < MaxRV
    /\ \E s \in ClusterManagementSpecs :
          cmAddOn' = [exists |-> TRUE, spec |-> s, rv |-> cmAddOn.rv + 1]
    /\ last' = EnvStep
    /\ UNCHANGED cmAddOnCache

ClusterManagementChangedByOther ==
    /\ cmAddOn.exists
    /\ cmAddOn.rv < MaxRV
    /\ \E s \in ClusterManagementSpecs \ {cmAddOn.spec} :
          cmAddOn' = [cmAddOn EXCEPT !.spec = s, !.rv = cmAddOn.rv + 1]
    /\ last' = EnvStep
    /\ UNCHANGED cmAddOnCache

ClusterManagementDeletedByOther ==
    /\ cmAddOn.exists
    /\ cmAddOn.rv < MaxRV
    /\ cmAddOn' = NoClusterManagement(cmAddOn.rv + 1)
    /\ last' = EnvStep
    /\ UNCHANGED cmAddOnCache

ClusterManagementInit ==
    /\ cmAddOn = NoClusterManagement(0)
    /\ cmAddOnCache = NoClusterManagement(0)

---------------------------------------------------------------------------
(* One ManagedClusterAddOn under all its writers: addonDeployController,   *)
(* registrationAgentDeployController and addonConfigController on the hub *)
(* (one informer), certificateManagerController on the spoke (another).   *)
(* Only the steps that update the add-on's metadata are kept; the cleanup *)
(* that precedes the removal of a finalizer succeeds or fails.  The        *)
(* cluster is present and registration is enabled.                        *)

FinalizerWriters == {"deploy", "registration", "cert"}

OwnFinalizer(w) ==
    IF w = "deploy" THEN addonFinalizer
    ELSE IF w = "registration" THEN registrationFinalizer
    ELSE spokeRegistrationFinalizer

Informers == {"hubInformer", "spokeInformer"}
InformerOf(w) == IF w = "cert" THEN "spokeInformer" ELSE "hubInformer"

\* the call of a pass that fails for a reason other than a conflict
SharedFailures == {"cleanup", "update", "none"}

\* the annotations addonConfigController merges with registration enabled
SharedAnnotationData == annotationData([constructed |-> TRUE, enableRegistration |-> TRUE,
                                        bootstrap |-> "none"])

SharedResult(a, writes, err) == [addon |-> a, writes |-> writes, err |-> err]

\* ManagedClusterAddOns().Update of the copy obj
SharedUpdate(obj, failing) ==
    IF failing = "update" \/ UpdateConflicts(obj, shAddon)
    THEN SharedResult(shAddon, {"addon.update"}, TRUE)
    ELSE SharedResult(UpdatedAddon(obj, shAddon), {"addon.update"}, FALSE)

\* the finalizer steps of the sync of writer w, on its informer's copy
FinalizerOutcome(w, failing) ==
    LET cached == shCache[InformerOf(w)]
        copied == WithoutFinalizer(cached.finalizers, OwnFinalizer(w))
    IN
    IF ~cached.exists THEN SharedResult(shAddon, {}, FALSE)
    ELSE IF w = "cert" /\ (DOMAIN cached.annotations = {}
                           \/ MapValue(cached.annotations, "enable_registration") = "false")
    THEN SharedResult(shAddon, {}, FALSE)
    ELSE IF ~cached.deleting
    THEN IF ~HasFinalizer(cached.finalizers, OwnFinalizer(w))
         THEN SharedUpdate([cached EXCEPT !.finalizers = Append(@, OwnFinalizer(w))], failing)
         ELSE SharedResult(shAddon, {}, FALSE)
    ELSE IF failing = "cleanup" THEN SharedResult(shAddon, {}, TRUE)
    ELSE IF Len(cached.finalizers) # Len(copied)
    THEN SharedUpdate([cached EXCEPT !.finalizers = copied], failing)
    ELSE SharedResult(shAddon, {}, FALSE)

\* addonConfigController.sync on the hub informer's copy
AnnotationOutcome(failing) ==
    LET cached == shCache["hubInformer"] IN
    IF ~cached.exists THEN SharedResult(shAddon, {}, FALSE)
    ELSE IF ~MergeModifies(cached.annotations, SharedAnnotationData)
    THEN SharedResult(shAddon, {}, FALSE)
    ELSE SharedUpdate([cached EXCEPT !.annotations = MergeMap(@, SharedAnnotationData)], failing)

FinalizerPass(w, failing) ==
    LET r == FinalizerOutcome(w, failing) IN
    /\ shAddon' = r.addon
    /\ last' = [op |-> w, writes |-> r.writes, err |-> r.err,
                fresh |-> (shCache[InformerOf(w)] = shAddon)]
    /\ UNCHANGED shCache

AnnotationPass(failing) ==
    LET r == AnnotationOutcome(failing) IN
    /\ shAddon' = r.addon
    /\ last' = [op |-> "config", writes |-> r.writes, err |-> r.err,
                fresh |-> (shCache["hubInformer"] = shAddon)]
    /\ UNCHANGED shCache

SharedInformerSync(i) ==
    /\ shCache[i] # shAddon
    /\ shCache' = [shCache EXCEPT ![i] = shAddon]
    /\ UNCHANGED <<shAddon, last>>

\* the add-on is created once, with or without a finalizer of another owner
SharedAddonCreate ==
    /\ ~shAddon.exists /\ shAddon.rv = 0
    /\ \E f \in {<<>>, <<"other">>} :
          shAddon' = [exists |-> TRUE, deleting |-> FALSE, finalizers |-> f,
                      annotations |-> NoAnnotations, rv |-> 1]
    /\ last' = EnvStep
    /\ UNCHANGED shCache

SharedAddonDelete ==
    /\ shAddon.exists /\ ~shAddon.deleting
    /\ shAddon' = IF shAddon.finalizers = <<>> THEN NoAddon(shAddon.rv + 1)
                  ELSE [shAddon EXCEPT !.deleting = TRUE, !.rv = shAddon.rv + 1]
    /\ last' = EnvStep
    /\ UNCHANGED shCache

SharedInit ==
    /\ shAddon = NoAddon(0)
    /\ shCache = [i \in Informers |-> NoAddon(0)]

---------------------------------------------------------------------------
(* AddonLeaseObserver, the variant of addonLeaseController that finds the  *)
(* lease by the add-on's installNamespace annotation                       *)

\* the install namespace of the agents; "" stands for no annotations or no
\* installNamespace among them
InstallNamespaces == {"", "ns1"}

NotListed == [listed |-> FALSE, installNamespace |-> ""]

AvailableLeaseNotFound ==
    Condition("Available", "False", "AddonLeaseNotFound", "Addon agent is not found.")
AvailableLeaseUpdated ==
    Condition("Available", "True", "ManagedClusterLeaseUpdated", "Addon agent is updating its lease.")
AvailableLeaseStopped ==
    Condition("Available", "False", "AddonLeaseUpdateStopped", "Addon agent stopped updating its lease.")

\* getLeaseByAddon: (nil, nil) without install namespace, else the lister's Get
getLeaseByAddon(a) ==
    IF annListed[a].installNamespace = "" THEN [lease |-> "nil", err |-> FALSE]
    ELSE IF ~annLease[a].exists THEN [lease |-> "nil", err |-> TRUE]
    ELSE [lease |-> "found", err |-> FALSE]

\* checkAddonLeases(lease) of this variant
checkAddonLease(lease) ==
    IF AddonLeaseFresh(lease) THEN AvailableLeaseUpdated ELSE AvailableLeaseStopped

\* the loop over the listed add-ons, from position i on; reached are the
\* add-ons the loop has come to
RECURSIVE AnnotatedLeasePass(_, _, _)
AnnotatedLeasePass(addons, i, st) ==
    IF i > Len(addons) THEN st
    ELSE LET a == addons[i]
             g == getLeaseByAddon(a)
             at == [st EXCEPT !.reached = @ \cup {a}]
         IN  IF ~g.err /\ g.lease = "nil" THEN at
             ELSE LET cond == IF g.err THEN AvailableLeaseNotFound ELSE checkAddonLease(annLease[a])
                      r == UpdateAddonStatus(st.addon[a], cond)
                  IN  IF r.err THEN [at EXCEPT !.err = TRUE]
                      ELSE IF ~r.updated THEN AnnotatedLeasePass(addons, i + 1, at)
                      ELSE AnnotatedLeasePass(addons, i + 1,
                              [at EXCEPT !.addon[a] = r.addon,
                                         !.writes = @ \cup {<<"addon.updateStatus", a, cond.type>>}])

AnnotatedLeaseOutcome(addons) ==
    AnnotatedLeasePass(addons, 1, [addon |-> annAddon, writes |-> {}, reached |-> {}, err |-> FALSE])

ListedAddons == {a \in SpokeAddons : annListed[a].listed}

AnnotatedLeaseSync ==
    /\ \E addons \in ListOrders(ListedAddons) :
          LET r == AnnotatedLeaseOutcome(addons) IN
          /\ annAddon' = r.addon
          /\ last' = [op |-> "AnnotatedLeaseSync", writes |-> r.writes, err |-> r.err,
                      reached |-> r.reached, listed |-> ListedAddons]
    /\ UNCHANGED <<annListed, annLease, now>>

\* an add-on is created, without annotations, and listed
AnnotatedAddonCreate ==
    /\ \E a \in SpokeAddons :
          /\ ~annAddon[a].exists
          /\ annAddon' = [annAddon EXCEPT ![a] = [exists |-> TRUE, conditions |-> NoConditions]]
          /\ annListed' = [annListed EXCEPT ![a] = [listed |-> TRUE, installNamespace |-> ""]]
    /\ last' = EnvStep
    /\ UNCHANGED <<annLease, now>>

\* ConfigAnnotator's update reaches the lister
AnnotatedAddonAnnotated ==
    /\ \E a \in SpokeAddons :
          /\ annListed[a].listed /\ annListed[a].installNamespace = ""
          /\ annListed' = [annListed EXCEPT ![a].installNamespace = "ns1"]
    /\ last' = EnvStep
    /\ UNCHANGED <<annAddon, annLease, now>>

\* an add-on is deleted; the lister learns of it in a later step
AnnotatedAddonDelete ==
    /\ \E a \in SpokeAddons :
          /\ annAddon[a].exists
          /\ annAddon' = [annAddon EXCEPT ![a] = NoStoredAddon]
    /\ last' = EnvStep
    /\ UNCHANGED <<annListed, annLease, now>>

AnnotatedInformerSync ==
    /\ \E a \in SpokeAddons :
          /\ annListed[a].listed /\ ~annAddon[a].exists
          /\ annListed' = [annListed EXCEPT ![a] = NotListed]
    /\ last' = EnvStep
    /\ UNCHANGED <<annAddon, annLease, now>>

\* the agent of an add-on creates or renews its lease, or the lease goes
AnnotatedHeartbeat ==
    /\ \E a \in SpokeAddons :
          /\ annLease[a] # [exists |-> TRUE, renewTime |-> now]
          /\ annLease' = [annLease EXCEPT ![a] = [exists |-> TRUE, renewTime |-> now]]
    /\ last' = EnvStep
    /\ UNCHANGED <<annAddon, annListed, now>>

AnnotatedLeaseDelete ==
    /\ \E a \in SpokeAddons :
          /\ annLease[a].exists
          /\ annLease' = [annLease EXCEPT ![a] = [exists |-> FALSE, renewTime |-> 0]]
    /\ last' = EnvStep
    /\ UNCHANGED <<annAddon, annListed, now>>

AnnotatedInit ==
    /\ annAddon = [a \in SpokeAddons |-> NoStoredAddon]
    /\ annListed = [a \in SpokeAddons |-> NotListed]
    /\ annLease = [a \in SpokeAddons |-> [exists |-> FALSE, renewTime |-> 0]]

---------------------------------------------------------------------------
(* CSRApprover: the event filter on the CSR name                           *)

\* names are sequences of pieces; a hyphen is a piece of its own
Hyphen == <<"-">>
FilterAddons == {<<"foo">>, <<"foo", "-", "bar">>, <<"foobar">>, <<"baz">>}
FilterClusters == {<<"cluster1">>, <<"bar", "-", "cluster1">>}
NameSuffixes == {<<"x7k2p">>, <<"m4q9z">>}

\* helpers.AgentCSRGenerateName: fmt.Sprintf("addon-%s-%s", addonName, clusterName)
AgentCSRGenerateName(cluster, addon) == <<"addon">> \o Hyphen \o addon \o Hyphen \o cluster

\* the name the API server gives a CSR of add-on b on a cluster: the
\* generated name, a hyphen and a random suffix
GeneratedCSRName(cluster, b, suffix) == AgentCSRGenerateName(cluster, b) \o Hyphen \o suffix

\* the filter function of NewCSRApprovingController
CSRFilter(name, addon) == HasPrefix(name, AgentCSRGenerateName(<<>>, addon))

NoNamedCSR ==
    [exists |-> FALSE, name |-> <<>>, addon |-> <<>>, cluster |-> <<>>,
     delivered |-> FALSE, approved |-> FALSE]

\* NewCSRApprovingController(addonName, ...)
NewCSRApprovingController ==
    /\ approverAddon = <<>>
    /\ \E a \in FilterAddons : approverAddon' = a
    /\ last' = EnvStep
    /\ UNCHANGED <<namedCSR, csrKeys>>

\* an agent of add-on b on a cluster posts its CSR
NamedCSRCreate ==
    /\ ~namedCSR.exists
    /\ \E b \in FilterAddons, cl \in FilterClusters, sfx \in NameSuffixes :
          namedCSR' = [exists |-> TRUE, name |-> GeneratedCSRName(cl, b, sfx), addon |-> b,
                       cluster |-> cl, delivered |-> FALSE, approved |-> FALSE]
    /\ last' = EnvStep
    /\ UNCHANGED <<approverAddon, csrKeys>>

\* the informer delivers the event: the filter decides on the name, the
\* queue key function puts the name on the queue
NamedCSREvent ==
    /\ approverAddon # <<>>
    /\ namedCSR.exists
    /\ ~namedCSR.delivered
    /\ namedCSR' = [namedCSR EXCEPT !.delivered = TRUE]
    /\ csrKeys' = IF CSRFilter(namedCSR.name, approverAddon)
                  THEN csrKeys \cup {namedCSR.name} ELSE csrKeys
    /\ last' = EnvStep
    /\ UNCHANGED approverAddon

\* sync(csrName) on a request without conditions: the renewal chain fails
\* on IsCSRInTerminalState, the add-on's approve checks decide
NamedCSROutcome(key, checks, accepted) ==
    IF ~namedCSR.exists \/ namedCSR.name # key
    THEN [csr |-> namedCSR, writes |-> {}, err |-> FALSE, found |-> FALSE]
    ELSE IF namedCSR.approved
    THEN [csr |-> namedCSR, writes |-> {}, err |-> FALSE, found |-> TRUE]
    ELSE IF ~ApproveChain(checks)
    THEN [csr |-> namedCSR, writes |-> {}, err |-> FALSE, found |-> TRUE]
    ELSE IF accepted
    THEN [csr |-> [namedCSR EXCEPT !.approved = TRUE],
          writes |-> {"csr.updateApproval"}, err |-> FALSE, found |-> TRUE]
    ELSE [csr |-> namedCSR, writes |-> {"csr.updateApproval"}, err |-> TRUE, found |-> TRUE]

NamedCSRSync ==
    /\ \E key \in csrKeys, accepted \in BOOLEAN :
       \E n \in 0..MaxChecks : \E checks \in [1..n -> BOOLEAN] :
          LET r == NamedCSROutcome(key, checks, accepted) IN
          /\ namedCSR' = r.csr
          /\ csrKeys' = IF r.err THEN csrKeys ELSE csrKeys \ {key}
          /\ last' = [op |-> "NamedCSRSync", writes |-> r.writes, err |-> r.err,
                      key |-> key, found |-> r.found, addon |-> namedCSR.addon,
                      cluster |-> namedCSR.cluster]
    /\ UNCHANGED approverAddon

\* the request is deleted
NamedCSRDelete ==
    /\ namedCSR.exists
    /\ namedCSR' = NoNamedCSR
    /\ last' = EnvStep
    /\ UNCHANGED <<approverAddon, csrKeys>>

CSRFilterInit ==
    /\ approverAddon = <<>>
    /\ namedCSR = NoNamedCSR
    /\ csrKeys = {}

---------------------------------------------------------------------------
(* The spoke process: RunSpokeAgent starts the leaseUpdater                *)

\* a time.Duration counts nanoseconds; time.Second
Second == 1000 * 1000 * 1000

\* the conversion of the untyped constant n to the parameter type
\* time.Duration: the duration of n nanoseconds
DurationOf(n) == n

\* (faulty variant) the constant taken as a number of clock units of a
\* second each, where the clock counts seconds
DurationOfSeconds(n) == n * Second

\* the whole seconds in a duration, and what is left over
WholeSeconds(d) == d \div Second
SecondsCeil(d) == (d + Second - 1) \div Second

SpokeNotStarted ==
    [started |-> FALSE, cluster |-> <<>>, leaseName |-> "", leaseDuration |-> 0, nextCall |-> 0]

\* lease.NewLeaseUpdater(o.ClusterName, "addon-lease", ...) and
\* go hubLeaseUpdater.Start(ctx, lease.AddonLeaseDurationSeconds): the first
\* call of update is immediate
SpokeStartOutcome ==
    [started |-> TRUE, cluster |-> clusterName, leaseName |-> "addon-lease",
     leaseDuration |-> DurationOf(AddonLeaseDurationSeconds), nextCall |-> spokeNow]

RunSpokeAgent ==
    /\ ~spokeUpdater.started
    /\ spokeUpdater' = SpokeStartOutcome
    /\ last' = [op |-> "RunSpokeAgent", writes |-> {}, err |-> FALSE]
    /\ UNCHANGED <<spokeLease, spokeCalls, spokeNow>>

\* update(ctx) on the hub client, the get and the update each answered or
\* failed by the server
SpokeUpdateOutcome(getOK, updateOK) ==
    IF ~spokeLease.exists \/ ~getOK
    THEN [lease |-> spokeLease, writes |-> {}, err |-> TRUE]
    ELSE IF ~updateOK
    THEN [lease |-> spokeLease, writes |-> {"lease.update"}, err |-> TRUE]
    ELSE [lease |-> [spokeLease EXCEPT !.renewTime = spokeNow],
          writes |-> {"lease.update"}, err |-> FALSE]

\* one call of update by JitterUntilWithContext, and the wait it then starts
SpokeUpdate ==
    /\ spokeUpdater.started
    /\ spokeNow = spokeUpdater.nextCall
    /\ \E getOK \in BOOLEAN, updateOK \in BOOLEAN,
          period \in JitteredPeriods(spokeUpdater.leaseDuration) :
          LET r == SpokeUpdateOutcome(getOK, updateOK) IN
          /\ spokeLease' = r.lease
          /\ spokeUpdater' = [spokeUpdater EXCEPT !.nextCall = spokeNow + period]
          /\ last' = [op |-> "SpokeUpdate", writes |-> r.writes, err |-> r.err]
    /\ spokeCalls' = IF spokeCalls = <<>> THEN <<spokeNow>>
                     ELSE <<spokeCalls[Len(spokeCalls)], spokeNow>>
    /\ UNCHANGED spokeNow

\* the hub creates the lease
SpokeLeaseCreated ==
    /\ ~spokeLease.exists
    /\ spokeLease' = [exists |-> TRUE, renewTime |-> spokeNow]
    /\ last' = EnvStep
    /\ UNCHANGED <<spokeUpdater, spokeCalls, spokeNow>>

\* time passes until the next call of update is due
SpokeClock ==
    /\ spokeUpdater.started
    /\ spokeNow < spokeUpdater.nextCall
    /\ spokeUpdater.nextCall <= MaxSpokeNanos
    /\ spokeNow' = spokeUpdater.nextCall
    /\ last' = EnvStep
    /\ UNCHANGED <<spokeUpdater, spokeLease, spokeCalls>>

SpokeInit ==
    /\ spokeUpdater = SpokeNotStarted
    /\ spokeLease = [exists |-> FALSE, renewTime |-> 0]
    /\ spokeCalls = <<>>
    /\ spokeNow = 0

---------------------------------------------------------------------------
(* Specifications *)

Init ==
    /\ DeployInit
    /\ CSRInit
    /\ now = 0
    /\ HubLeaseInit
    /\ AddonLeaseInit
    /\ RenewerInit
    /\ CertInit
    /\ probed = NotProbed
    /\ annotator = NotConstructed
    /\ RegInit
    /\ WorkerInit
    /\ StatusInit
    /\ graceCheck = NotChecked
    /\ ClusterInit
    /\ ClusterManagementInit
    /\ SharedInit
    /\ AnnotatedInit
    /\ CSRFilterInit
    /\ SpokeInit
    /\ last = EnvStep

\* what each specification leaves alone
outsideDeploy == <<csrVars, clockVars, hubLeaseVars, addonLeaseVars, renewerVars, certVars, probeVars, configVars, callVars, regVars, workerVars, statusVars, graceVars, clusterVars, clusterManagementVars, sharedVars, annotatedVars, filterVars, spokeVars>>
outsideCSR == <<deployVars, clockVars, hubLeaseVars, addonLeaseVars, renewerVars, certVars, probeVars, configVars, callVars, regVars, workerVars, statusVars, graceVars, clusterVars, clusterManagementVars, sharedVars, annotatedVars, filterVars, spokeVars>>
outsideHubLease == <<deployVars, csrVars, addonLeaseVars, renewerVars, certVars, probeVars, configVars, callVars, regVars, workerVars, statusVars, graceVars, clusterVars, clusterManagementVars, sharedVars, annotatedVars, filterVars, spokeVars>>
outsideAddonLease == <<deployVars, csrVars, hubLeaseVars, renewerVars, certVars, probeVars, configVars, callVars, regVars, workerVars, statusVars, graceVars, clusterVars, clusterManagementVars, sharedVars, annotatedVars, filterVars, spokeVars>>
outsideRenewer == <<deployVars, csrVars, hubLeaseVars, addonLeaseVars, certVars, probeVars, configVars, callVars, regVars, workerVars, statusVars, graceVars, clusterVars, clusterManagementVars, sharedVars, annotatedVars, filterVars, spokeVars>>
outsideCert == <<deployVars, csrVars, clockVars, hubLeaseVars, addonLeaseVars, renewerVars, probeVars, configVars, callVars, regVars, workerVars, statusVars, graceVars, clusterVars, clusterManagementVars, sharedVars, annotatedVars, filterVars, spokeVars>>

NextDeploy ==
    \/ DeploySync /\ UNCHANGED outsideDeploy
    \/ InformerSyncAddon /\ UNCHANGED outsideDeploy
    \/ InformerSyncWork /\ UNCHANGED outsideDeploy
    \/ AddonCreate /\ UNCHANGED outsideDeploy
    \/ AddonDelete /\ UNCHANGED outsideDeploy
    \/ ClusterChange /\ UNCHANGED outsideDeploy
    \/ CMAChange /\ UNCHANGED outsideDeploy
    \/ SupplierChange /\ UNCHANGED outsideDeploy
    \/ WorkAgentAddFinalizer /\ UNCHANGED outsideDeploy
    \/ WorkAgentFinalize /\ UNCHANGED outsideDeploy
SpecDeploy == Init /\ [][NextDeploy]_vars

\* the deploy controller under the scheduling of its work queue: a key that
\* returned an error is queued again, informers deliver every change, and the
\* work agent finishes the deletion of an envelope marked for deletion
DeployFairness ==
    /\ WF_vars(DeploySync /\ UNCHANGED outsideDeploy)
    /\ WF_vars(InformerSyncAddon /\ UNCHANGED outsideDeploy)
    /\ WF_vars(InformerSyncWork /\ UNCHANGED outsideDeploy)
    /\ WF_vars(WorkAgentFinalize /\ UNCHANGED outsideDeploy)
\* the teardown does not read the payload of an envelope: the supplier
\* returns at most one object here
NextDeployLive ==
    \/ DeploySync /\ UNCHANGED outsideDeploy
    \/ InformerSyncAddon /\ UNCHANGED outsideDeploy
    \/ InformerSyncWork /\ UNCHANGED outsideDeploy
    \/ AddonCreate /\ UNCHANGED outsideDeploy
    \/ AddonDelete /\ UNCHANGED outsideDeploy
    \/ ClusterChange /\ UNCHANGED outsideDeploy
    \/ CMAChange /\ UNCHANGED outsideDeploy
    \/ (SupplierChange /\ Len(supplier'.objs) <= 1 /\ ~supplier'.err) /\ UNCHANGED outsideDeploy
    \/ WorkAgentAddFinalizer /\ UNCHANGED outsideDeploy
    \/ WorkAgentFinalize /\ UNCHANGED outsideDeploy
SpecDeployLive == Init /\ [][NextDeployLive]_vars /\ DeployFairness

outsideConfig == <<csrVars, clockVars, hubLeaseVars, addonLeaseVars, renewerVars, certVars, probeVars, callVars, regVars, workerVars, statusVars, graceVars, clusterVars, clusterManagementVars, sharedVars, annotatedVars, filterVars, spokeVars>>
NextConfig ==
    \/ ConfigSync /\ UNCHANGED outsideConfig
    \/ AnnotatorConstructed /\ UNCHANGED outsideConfig
    \/ InformerSyncAddon /\ UNCHANGED outsideDeploy
    \/ AddonCreate /\ UNCHANGED outsideDeploy
    \/ AddonDelete /\ UNCHANGED outsideDeploy
    \/ ClusterChange /\ UNCHANGED outsideDeploy
SpecConfig == Init /\ [][NextConfig]_vars

NextCSR ==
    \/ CSRSync /\ UNCHANGED outsideCSR
    \/ CSRCreate /\ UNCHANGED outsideCSR
    \/ CSRExternalCondition /\ UNCHANGED outsideCSR
SpecCSR == Init /\ [][NextCSR]_vars

\* the approver with a second pass running beside the first
NextCSRRace ==
    \/ CSRSync /\ UNCHANGED outsideCSR
    \/ CSRCreate /\ UNCHANGED outsideCSR
    \/ CSRExternalCondition /\ UNCHANGED outsideCSR
    \/ CSRConcurrentGet /\ UNCHANGED outsideCSR
    \/ CSRConcurrentUpdate /\ UNCHANGED outsideCSR
SpecCSRRace == Init /\ [][NextCSRRace]_vars

NextHubLease ==
    \/ HubLeaseSync /\ UNCHANGED outsideHubLease
    \/ HubInformerSyncLease /\ UNCHANGED outsideHubLease
    \/ HubInformerSyncAddons /\ UNCHANGED outsideHubLease
    \/ HubAddonCreate /\ UNCHANGED outsideHubLease
    \/ HubAddonDelete /\ UNCHANGED outsideHubLease
    \/ HubAddonReportedAvailable /\ UNCHANGED outsideHubLease
    \/ HubLeaseRenewed /\ UNCHANGED outsideHubLease
    \/ Tick /\ UNCHANGED <<outsideHubLease, hubLeaseVars>>
SpecHubLease == Init /\ [][NextHubLease]_vars

NextAddonLease ==
    \/ AddonLeaseSync /\ UNCHANGED outsideAddonLease
    \/ SpokeInformerSyncAddons /\ UNCHANGED outsideAddonLease
    \/ SpokeAddonCreate /\ UNCHANGED outsideAddonLease
    \/ SpokeAddonDelete /\ UNCHANGED outsideAddonLease
    \/ AgentHeartbeat /\ UNCHANGED outsideAddonLease
    \/ AgentLeaseDelete /\ UNCHANGED outsideAddonLease
    \/ Tick /\ UNCHANGED <<outsideAddonLease, addonLeaseVars>>
SpecAddonLease == Init /\ [][NextAddonLease]_vars

NextRenewer ==
    \/ RenewerStart /\ UNCHANGED outsideRenewer
    \/ RenewerUpdate /\ UNCHANGED outsideRenewer
    \/ RenewerStop /\ UNCHANGED outsideRenewer
    \/ RenewerLeaseCreated /\ UNCHANGED outsideRenewer
    \/ RenewerLeaseDeleted /\ UNCHANGED outsideRenewer
    \/ RenewerClock /\ UNCHANGED outsideRenewer
SpecRenewer == Init /\ [][NextRenewer]_vars

outsideRegistration ==
    <<deployVars, csrVars, clockVars, hubLeaseVars, addonLeaseVars, renewerVars, certVars,
      probeVars, configVars, callVars, workerVars, statusVars, graceVars, clusterVars, clusterManagementVars, sharedVars, annotatedVars, filterVars, spokeVars>>
NextRegistration ==
    \/ RegSync /\ UNCHANGED outsideRegistration
    \/ RegInformerSync /\ UNCHANGED outsideRegistration
    \/ RegAddonCreate /\ UNCHANGED outsideRegistration
    \/ RegAddonDelete /\ UNCHANGED outsideRegistration
    \/ RegEnvChange /\ UNCHANGED outsideRegistration
    \/ HubConfigMapCreated /\ UNCHANGED outsideRegistration
SpecRegistration == Init /\ [][NextRegistration]_vars

outsideCalls ==
    <<deployVars, csrVars, hubLeaseVars, addonLeaseVars, certVars, probeVars, configVars,
      updater, renewals, regVars, workerVars, statusVars, graceVars, clusterVars, clusterManagementVars, sharedVars, annotatedVars, filterVars, spokeVars>>
NextRenewerCalls ==
    \/ LeaseUpdaterStart /\ UNCHANGED outsideCalls
    \/ LeaseUpdaterStop /\ UNCHANGED outsideCalls
    \/ LeaseUpdaterUpdate /\ UNCHANGED outsideCalls
    \/ LeaseUpdaterClock /\ UNCHANGED outsideCalls
    \/ RenewerLeaseCreated /\ UNCHANGED outsideRenewer
    \/ RenewerLeaseDeleted /\ UNCHANGED outsideRenewer
SpecRenewerCalls == Init /\ [][NextRenewerCalls]_vars

outsideGrace ==
    <<deployVars, csrVars, clockVars, hubLeaseVars, addonLeaseVars, renewerVars, certVars,
      probeVars, configVars, callVars, regVars, workerVars, statusVars, clusterVars, clusterManagementVars, sharedVars, annotatedVars, filterVars, spokeVars>>
NextGrace ==
    \/ GraceCheck /\ UNCHANGED outsideGrace
SpecGrace == Init /\ [][NextGrace]_vars

outsideStatus ==
    <<deployVars, csrVars, clockVars, hubLeaseVars, addonLeaseVars, renewerVars, certVars,
      probeVars, configVars, callVars, regVars, workerVars, graceVars, clusterVars, clusterManagementVars, sharedVars, annotatedVars, filterVars, spokeVars>>
NextStatus ==
    \/ (\E w \in StatusWriters : StatusCall(w)) /\ UNCHANGED outsideStatus
    \/ (\E w \in StatusWriters : StatusGet(w)) /\ UNCHANGED outsideStatus
    \/ (\E w \in StatusWriters : StatusAttempt(w)) /\ UNCHANGED outsideStatus
SpecStatus == Init /\ [][NextStatus]_vars

outsideWorker ==
    <<deployVars, csrVars, clockVars, hubLeaseVars, addonLeaseVars, renewerVars, certVars,
      probeVars, configVars, regVars, statusVars, graceVars, clusterVars, clusterManagementVars, sharedVars, annotatedVars, filterVars, spokeVars>>
NextCertWorker ==
    \/ WorkerTake /\ UNCHANGED <<outsideWorker, callVars>>
    \/ PollReturns /\ UNCHANGED <<outsideWorker, callVars>>
    \/ PollFails /\ UNCHANGED <<outsideWorker, callVars>>
    \/ IdentityIssued /\ UNCHANGED <<outsideWorker, callVars>>
    \/ IdentityLost /\ UNCHANGED <<outsideWorker, callVars>>
    \/ KeyAddonCreated /\ UNCHANGED <<outsideWorker, callVars>>
    \/ KeyAddonDeleted /\ UNCHANGED <<outsideWorker, callVars>>
    \/ KeyResync /\ UNCHANGED <<outsideWorker, callVars>>
    \/ RootCancel /\ UNCHANGED <<outsideWorker, cancel, starts>>
    \/ (LeaseUpdaterStart /\ ~rootDone) /\ UNCHANGED outsideCalls
SpecCertWorker == Init /\ [][NextCertWorker]_vars

\* the worker takes every queued key once it is free (the queue is first in,
\* first out) and the poll sees a valid identity within a second; nothing
\* obliges the hub to approve a CSR
NextCertWorkerLive ==
    \/ WorkerTake /\ UNCHANGED <<outsideWorker, callVars>>
    \/ PollReturns /\ UNCHANGED <<outsideWorker, callVars>>
    \/ PollFails /\ UNCHANGED <<outsideWorker, callVars>>
    \/ IdentityIssued /\ UNCHANGED <<outsideWorker, callVars>>
    \/ IdentityLost /\ UNCHANGED <<outsideWorker, callVars>>
    \/ KeyAddonCreated /\ UNCHANGED <<outsideWorker, callVars>>
    \/ KeyAddonDeleted /\ UNCHANGED <<outsideWorker, callVars>>
    \/ KeyResync /\ UNCHANGED <<outsideWorker, callVars>>
SpecCertWorkerLive ==
    /\ Init /\ [][NextCertWorkerLive]_vars
    /\ \A k \in KeyAddons : SF_vars(WorkerTakeKey(k) /\ UNCHANGED <<outsideWorker, callVars>>)
    /\ WF_vars(PollReturns /\ UNCHANGED <<outsideWorker, callVars>>)

NextCertManager ==
    \/ CertManagerSync /\ UNCHANGED outsideCert
    \/ CertManagerConfigMapSync /\ UNCHANGED outsideCert
    \/ CertInformerSync /\ UNCHANGED outsideCert
    \/ CertAddonCreate /\ UNCHANGED outsideCert
    \/ CertAddonDelete /\ UNCHANGED outsideCert
    \/ CertConfigMapChange /\ UNCHANGED outsideCert
    \/ CertSecretChange /\ UNCHANGED outsideCert
SpecCertManager == Init /\ [][NextCertManager]_vars

outsideProbe ==
    <<deployVars, csrVars, clockVars, hubLeaseVars, addonLeaseVars, renewerVars,
      certAddon, certAddonCache, certConfigMap, csrControllers, rotations, configVars, callVars, regVars, workerVars, statusVars, graceVars, clusterVars, clusterManagementVars, sharedVars, annotatedVars, filterVars, spokeVars>>
NextProbe ==
    \/ ProbeSecretWritten /\ UNCHANGED outsideProbe
    \/ ProbeCalled /\ UNCHANGED outsideProbe
SpecProbe == Init /\ [][NextProbe]_vars

outsideCluster ==
    <<deployVars, csrVars, clockVars, hubLeaseVars, addonLeaseVars, renewerVars, certVars,
      probeVars, configVars, callVars, regVars, workerVars, statusVars, graceVars, clusterManagementVars, sharedVars, annotatedVars, filterVars, spokeVars>>
NextCluster ==
    \/ ClusterSync /\ UNCHANGED outsideCluster
    \/ ClusterInformerSync /\ UNCHANGED outsideCluster
    \/ ClusterCreate /\ UNCHANGED outsideCluster
    \/ ClusterDelete /\ UNCHANGED outsideCluster
SpecCluster == Init /\ [][NextCluster]_vars

outsideClusterManagement ==
    <<deployVars, csrVars, clockVars, hubLeaseVars, addonLeaseVars, renewerVars, certVars,
      probeVars, configVars, callVars, regVars, workerVars, statusVars, graceVars, clusterVars, sharedVars, annotatedVars, filterVars, spokeVars>>
NextClusterManagement ==
    \/ ClusterManagementSync /\ UNCHANGED outsideClusterManagement
    \/ ClusterManagementInformerSync /\ UNCHANGED outsideClusterManagement
    \/ ClusterManagementCreatedByOther /\ UNCHANGED outsideClusterManagement
    \/ ClusterManagementChangedByOther /\ UNCHANGED outsideClusterManagement
    \/ ClusterManagementDeletedByOther /\ UNCHANGED outsideClusterManagement
SpecClusterManagement == Init /\ [][NextClusterManagement]_vars

outsideShared ==
    <<deployVars, csrVars, clockVars, hubLeaseVars, addonLeaseVars, renewerVars, certVars,
      probeVars, configVars, callVars, regVars, workerVars, statusVars, graceVars, clusterVars,
      clusterManagementVars, annotatedVars, filterVars, spokeVars>>
NextShared ==
    \/ (\E w \in FinalizerWriters, failing \in SharedFailures : FinalizerPass(w, failing))
          /\ UNCHANGED outsideShared
    \/ (\E failing \in SharedFailures : AnnotationPass(failing)) /\ UNCHANGED outsideShared
    \/ (\E i \in Informers : SharedInformerSync(i)) /\ UNCHANGED outsideShared
    \/ SharedAddonCreate /\ UNCHANGED outsideShared
    \/ SharedAddonDelete /\ UNCHANGED outsideShared
\* a pass that returns an error is queued again and the server's failures
\* are transient: each writer's pass without such a failure keeps being run,
\* and each informer delivers what is stored
SharedFairness ==
    /\ \A w \in FinalizerWriters : WF_vars(FinalizerPass(w, "none") /\ UNCHANGED outsideShared)
    /\ WF_vars(AnnotationPass("none") /\ UNCHANGED outsideShared)
    /\ \A i \in Informers : WF_vars(SharedInformerSync(i) /\ UNCHANGED outsideShared)
SpecShared == Init /\ [][NextShared]_vars /\ SharedFairness

outsideAnnotated ==
    <<deployVars, csrVars, hubLeaseVars, addonLeaseVars, renewerVars, certVars,
      probeVars, configVars, callVars, regVars, workerVars, statusVars, graceVars, clusterVars,
      clusterManagementVars, sharedVars, filterVars, spokeVars>>
NextAnnotatedLease ==
    \/ AnnotatedLeaseSync /\ UNCHANGED outsideAnnotated
    \/ AnnotatedAddonCreate /\ UNCHANGED outsideAnnotated
    \/ AnnotatedAddonAnnotated /\ UNCHANGED outsideAnnotated
    \/ AnnotatedAddonDelete /\ UNCHANGED outsideAnnotated
    \/ AnnotatedInformerSync /\ UNCHANGED outsideAnnotated
    \/ AnnotatedHeartbeat /\ UNCHANGED outsideAnnotated
    \/ AnnotatedLeaseDelete /\ UNCHANGED outsideAnnotated
    \/ Tick /\ UNCHANGED <<outsideAnnotated, annotatedVars>>
SpecAnnotatedLease == Init /\ [][NextAnnotatedLease]_vars

outsideCSRFilter ==
    <<deployVars, csrVars, clockVars, hubLeaseVars, addonLeaseVars, renewerVars, certVars,
      probeVars, configVars, callVars, regVars, workerVars, statusVars, graceVars, clusterVars,
      clusterManagementVars, sharedVars, annotatedVars, spokeVars>>
NextCSRFilter ==
    \/ NewCSRApprovingController /\ UNCHANGED outsideCSRFilter
    \/ NamedCSRCreate /\ UNCHANGED outsideCSRFilter
    \/ NamedCSREvent /\ UNCHANGED outsideCSRFilter
    \/ NamedCSRSync /\ UNCHANGED outsideCSRFilter
    \/ NamedCSRDelete /\ UNCHANGED outsideCSRFilter
SpecCSRFilter == Init /\ [][NextCSRFilter]_vars

outsideSpoke ==
    <<deployVars, csrVars, clockVars, hubLeaseVars, addonLeaseVars, renewerVars, certVars,
      probeVars, configVars, callVars, regVars, workerVars, statusVars, graceVars, clusterVars,
      clusterManagementVars, sharedVars, annotatedVars, filterVars>>
NextSpoke ==
    \/ RunSpokeAgent /\ UNCHANGED outsideSpoke
    \/ SpokeUpdate /\ UNCHANGED outsideSpoke
    \/ SpokeLeaseCreated /\ UNCHANGED outsideSpoke
    \/ SpokeClock /\ UNCHANGED outsideSpoke
SpecSpoke == Init /\ [][NextSpoke]_vars

---------------------------------------------------------------------------
(* Claims about DeployReconciler (checked under SpecDeploy)                *)

\* the labelled delivery envelopes in the add-on's cluster namespace
LabelledWorks == IF work.exists /\ work.label = addonName THEN {"addon-testaddon-deploy"} ELSE {}

\* the supplier's output as raw manifests
SupplierPayload == [i \in 1..Len(supplier.objs) |-> Encode(supplier.objs[i])]

\* the reconciler has observed the add-on as it is in storage, the add-on is not
\* being deleted, its cluster exists, and a further reconcile performs no write
DeployConverged ==
    /\ mca.exists /\ ~mca.deleting
    /\ managedCluster
    /\ mcaCache = mca
    /\ DeployOutcome.writes = {}

DeployDelivered ==
    /\ HasFinalizer(mca.finalizers, addonFinalizer)
    /\ Cardinality(LabelledWorks) = 1
    /\ work.payload = SupplierPayload

C2_NoEnvelopeOutlivesFinalizer ==
    LabelledWorks # {} => (mca.exists /\ HasFinalizer(mca.finalizers, addonFinalizer))

---------------------------------------------------------------------------
(* Claims about CSRApprover *)

\* C3 as stated: a CSR that carries an Approved condition, whatever other
\* conditions it carries, receives no approval update from a reconcile of
\* the approver, for every SubjectAccessReview answer.
C3_ApprovedNoWrite ==
    HasCondition(csr, CertificateApproved) =>
        \A sar \in SARAnswers, accepted \in BOOLEAN :
            "csr.updateApproval" \notin CSROutcome(sar, accepted).writes

\* C4 as stated: a reconcile of the approver leaves a CSR that is Approved
\* or Denied exactly as it found it.
C4_TerminalMonotonic ==
    [][(last'.op = "CSRSync" /\ IsCSRInTerminalState(csr)) => csr' = csr]_vars

---------------------------------------------------------------------------
(* Claims about HubLivenessReconciler *)

ObservedFresh(k) == hubLeaseCache[k].exists /\ LeaseFresh(hubLeaseCache[k], k)
ObservedStale(k) == hubLeaseCache[k].exists /\ ~LeaseFresh(hubLeaseCache[k], k)
StatusWrites(writes, k) == {w \in writes : w[1] = "addon.updateStatus" /\ w[2] = k}
MarkedUnknown(addon) ==
    /\ addon.exists
    /\ "Available" \in DOMAIN addon.conditions
    /\ addon.conditions["Available"].status = "Unknown"
    /\ addon.conditions["Available"].reason = "AddonManagerUpdateStopped"

\* C5 as stated: a pass issues no status write on the add-ons of a cluster
\* whose lease is fresh, and leaves every add-on of a cluster whose lease is
\* stale with Available = Unknown, reason AddonManagerUpdateStopped (read
\* for the leases and the add-ons that the listers already show).
C5_AsStated ==
    \A clusters \in ListOrders(HubClusters), addonOrder \in AddonOrders, k \in HubClusters :
        LET r == HubLeaseOutcome(clusters, addonOrder) IN
        /\ ObservedFresh(k) => StatusWrites(r.writes, k) = {}
        /\ ObservedStale(k) =>
               \A a \in StoredAddons(k) \cap hubAddonCache[k] : MarkedUnknown(r.addon[k][a])

\* C5 amended: no status write on the add-ons of a cluster whose listed
\* lease is fresh; a pass that returns no error leaves every add-on that the
\* lister returns for a cluster whose listed lease is stale with
\* Available = Unknown, reason AddonManagerUpdateStopped; a pass that returns
\* an error has written nothing for the clusters it did not reach.
C5_FreshUntouchedStaleMarked ==
    \A clusters \in ListOrders(HubClusters), addonOrder \in AddonOrders, k \in HubClusters :
        LET r == HubLeaseOutcome(clusters, addonOrder) IN
        /\ ObservedFresh(k) => StatusWrites(r.writes, k) = {}
        /\ (ObservedStale(k) /\ ~r.err) =>
               \A a \in hubAddonCache[k] : MarkedUnknown(r.addon[k][a])
        /\ k \notin r.visited => (StatusWrites(r.writes, k) = {} /\ r.addon[k] = hubAddon[k])

C5_Witness ==
    /\ last.op = "HubLeaseSync"
    /\ ~last.err
    /\ ObservedFresh("cluster1")
    /\ hubAddonCache["cluster1"] # {}
    /\ StatusWrites(last.writes, "cluster1") = {}
    /\ ObservedStale("cluster2")
    /\ hubAddonCache["cluster2"] = HubAddons
    /\ \A a \in HubAddons : MarkedUnknown(hubAddon["cluster2"][a])
    /\ Cardinality(StatusWrites(last.writes, "cluster2")) = 2

\* C6: a pass that comes to a cluster for which the lister holds no lease
\* issues a create of the lease with renewTime = now and the cluster label,
\* the namespace then holds that lease if it held none, and the pass issues
\* no status write on that cluster's add-ons.
C6_AbsentLeaseCreated ==
    \A clusters \in ListOrders(HubClusters), addonOrder \in AddonOrders, k \in HubClusters :
        LET r == HubLeaseOutcome(clusters, addonOrder) IN
        (~hubLeaseCache[k].exists /\ k \in r.visited) =>
            /\ <<"lease.create", k, [exists |-> TRUE, renewTime |-> now, label |-> k]>> \in r.writes
            /\ ~hubLease[k].exists =>
                   r.lease[k] = [exists |-> TRUE, renewTime |-> now, label |-> k]
            /\ StatusWrites(r.writes, k) = {}
            /\ r.addon[k] = hubAddon[k]

C6_Witness ==
    /\ last.op = "HubLeaseSync"
    /\ now > 0
    /\ \E k \in HubClusters :
          /\ <<"lease.create", k, [exists |-> TRUE, renewTime |-> now, label |-> k]>> \in last.writes
          /\ hubLease[k] = [exists |-> TRUE, renewTime |-> now, label |-> k]
          /\ ~hubLeaseCache[k].exists
          /\ hubAddonCache[k] # {}
          /\ StatusWrites(last.writes, k) = {}

---------------------------------------------------------------------------
(* Claims about AddonLeaseObserver *)

\* the calls of a pass on the add-on client that concern add-on a
ActionsOn(actions, a) == SelectSeq(actions, LAMBDA x : x[2] = a)
DegradedOf(addon) ==
    IF "Degraded" \in DOMAIN addon.conditions THEN addon.conditions["Degraded"]
    ELSE [status |-> "", reason |-> "", message |-> ""]
NotFoundDegraded ==
    [status |-> "True", reason |-> "AddonLeaseNotFound", message |-> "Addon agent is not found."]

\* C7 as stated: for every listed and stored add-on without a heartbeat lease, a
\* pass that returns no error has made one get followed by one status update
\* and the add-on carries Degraded = True, AddonLeaseNotFound,
\* "Addon agent is not found.".
C7_AsStated ==
    \A addons \in ListOrders(spokeAddonCache), slotOrder \in SlotOrders, a \in spokeAddonCache :
        LET r == AddonLeaseOutcome(addons, slotOrder) IN
        (LabelledSlots(a) = {} /\ spokeAddon[a].exists /\ ~r.err) =>
            /\ ActionsOn(r.actions, a) = <<<<"get", a>>, <<"update", a>>>>
            /\ DegradedOf(r.addon[a]) = NotFoundDegraded

\* C7 amended: for every listed add-on without a heartbeat lease, a pass that
\* returns no error leaves the add-on with Degraded = True, AddonLeaseNotFound,
\* "Addon agent is not found."; it makes one get followed by one status update
\* unless the add-on already carries exactly that condition, and then it makes
\* the get alone.  A pass that returns an error has made no call for the add-ons
\* that follow the failing one.
C7_NotFoundWritten ==
    \A addons \in ListOrders(spokeAddonCache), slotOrder \in SlotOrders, a \in spokeAddonCache :
        LET r == AddonLeaseOutcome(addons, slotOrder) IN
        /\ (LabelledSlots(a) = {} /\ ~r.err) =>
              /\ DegradedOf(r.addon[a]) = NotFoundDegraded
              /\ ActionsOn(r.actions, a) =
                    IF DegradedOf(spokeAddon[a]) = NotFoundDegraded
                    THEN <<<<"get", a>>>>
                    ELSE <<<<"get", a>>, <<"update", a>>>>
        /\ ActionsOn(r.actions, a) = <<>> => (r.err /\ r.addon[a] = spokeAddon[a])

C7_Witness ==
    /\ last.op = "AddonLeaseSync"
    /\ ~last.err
    /\ \E a \in spokeAddonCache :
          /\ LabelledSlots(a) = {}
          /\ <<"addon.updateStatus", a>> \in last.writes
          /\ DegradedOf(spokeAddon[a]) = NotFoundDegraded
    /\ \E b \in spokeAddonCache : LabelledSlots(b) # {}

SomeLeaseFresh(a) ==
    \E slot \in LabelledSlots(a) :
        now < agentLease[slot].renewTime + 5 * 60

\* C8: for every listed add-on with one or several heartbeat leases, in every
\* order of the leases, the condition the pass derives is Degraded = False,
\* ManagedClusterLeaseUpdated if some lease has now < renewTime + 5 x 60 s and
\* Degraded = True, AddonLeaseUpdateStopped if none has, and a pass that
\* returns no error leaves the add-on with that condition.
C8_AnyLeaseFresh ==
    \A addons \in ListOrders(spokeAddonCache), slotOrder \in SlotOrders, a \in spokeAddonCache :
        LET r == AddonLeaseOutcome(addons, slotOrder)
            derived == DerivedCondition(getLeaseByAddonName(slotOrder[a]))
            expected == IF SomeLeaseFresh(a)
                        THEN [status |-> "False", reason |-> "ManagedClusterLeaseUpdated"]
                        ELSE [status |-> "True", reason |-> "AddonLeaseUpdateStopped"]
        IN  LabelledSlots(a) # {} =>
              /\ derived.type = "Degraded"
              /\ derived.status = expected.status
              /\ derived.reason = expected.reason
              /\ ~r.err =>
                    /\ DegradedOf(r.addon[a]).status = expected.status
                    /\ DegradedOf(r.addon[a]).reason = expected.reason

\* an add-on with a stale and a fresh lease has been found not degraded
C8_Witness ==
    /\ last.op = "AddonLeaseSync"
    /\ ~last.err
    /\ "addon1" \in spokeAddonCache
    /\ Cardinality(LabelledSlots("addon1")) = 2
    /\ SomeLeaseFresh("addon1")
    /\ \E slot \in LabelledSlots("addon1") : ~AddonLeaseFresh(agentLease[slot])
    /\ DegradedOf(spokeAddon["addon1"]).status = "False"
    /\ DegradedOf(spokeAddon["addon1"]).reason = "ManagedClusterLeaseUpdated"
    /\ <<"addon.updateStatus", "addon1">> \in last.writes

---------------------------------------------------------------------------
(* Claims about LeaseRenewer *)

NonDecreasing(times) == \A i \in 1..Len(times), j \in 1..Len(times) : i < j => times[i] <= times[j]
TwoIncreasingRenewals == Len(renewals) >= 2 /\ renewals[2] > renewals[1]
\* the first call of update and the longest wait after it lie in the past
PeriodElapsed ==
    /\ updater.running
    /\ now > updater.startTime + updater.leaseDuration + updater.leaseDuration \div 4

\* C9 as stated: once a started renewer has run for one (jittered) period, at
\* least two updates of strictly increasing renewTime have been made.
C9_AsStated == PeriodElapsed => TwoIncreasingRenewals

\* C9 amended: a call of update issues an update only after its get has
\* succeeded and never a create; a failed get or update leaves the routine
\* running with its next call scheduled; the renewTime values of the
\* successful updates are non-decreasing; and when the lease exists and every
\* get and update so far has succeeded, two updates of strictly increasing
\* renewTime have been made once the first call and the longest jittered wait
\* (leaseDuration + leaseDuration/4) lie in the past.
C9_RenewerLoop ==
    /\ \A getOK \in BOOLEAN, updateOK \in BOOLEAN :
          LET r == RenewerOutcome(getOK, updateOK) IN
          /\ r.calls \in {<<"get">>, <<"get", "update">>}
          /\ r.calls = <<"get", "update">> => (getOK /\ renewerLease.exists)
          /\ r.renewed => (r.lease.exists /\ r.lease.renewTime = now)
          /\ ~r.renewed => r.lease = renewerLease
    /\ (last.op = "RenewerUpdate" /\ last.err) =>
          (updater.running /\ updater.nextCall > now)
    /\ NonDecreasing(renewals)
    /\ (PeriodElapsed /\ updater.clean) => TwoIncreasingRenewals

\* the first two calls have renewed the lease within the jittered period, a
\* later call has failed, and the routine is still running
C9_Witness ==
    /\ updater.running
    /\ last.op = "RenewerUpdate"
    /\ last.err
    /\ updater.nextCall > now
    /\ Len(renewals) = 2
    /\ renewals[1] = updater.startTime
    /\ renewals[2] > renewals[1]
    /\ renewals[2] <= updater.startTime + updater.leaseDuration + updater.leaseDuration \div 4

---------------------------------------------------------------------------
(* Claims about CertificateManager *)

\* C10 as stated: a reconcile of an add-on whose enable_registration
\* annotation is not exactly "true" (absent, "false" or any other value,
\* with or without other annotations) issues no write: no finalizer is
\* added and no bootstrap or rotation controller is started.
C10_NotEnabledNoWrite ==
    (/\ certAddonCache.exists
     /\ MapValue(certAddonCache.annotations, "enable_registration") # "true") =>
        \A start \in StartResults :
            LET r == CertManagerOutcome(start) IN
            /\ r.writes = {}
            /\ r.addon = certAddon
            /\ r.managers = csrControllers

\* the sub-controllers running at each moment of a certificate manager pass
\* taken in the current state, for each way start can end
CertPassMoments ==
    UNION {{PassMoments(CertManagerOutcome(start).writes)[i] :
                i \in 1..Len(PassMoments(CertManagerOutcome(start).writes))} :
           start \in StartsFor(certSecret)}

\* C11 as stated: across any sequence of reconciles of the add-on (repeated
\* reconciles of an unchanged add-on and reconciles after the identity became
\* invalid again included) at most one identity-producing sub-controller
\* runs at any moment: never two rotations, never bootstrap beside rotation.
C11_AtMostOneSubController ==
    /\ rotations <= 1
    /\ \A moment \in CertPassMoments : moment[1] + moment[2] <= 1

---------------------------------------------------------------------------
(* Claims about reconciling twice in a row *)

\* a DeployReconciler pass has succeeded and nothing changed since: the next writes nothing
DeployTwiceNoWrite ==
    (last.op = "DeploySync" /\ ~last.err /\ last.fresh /\ DeployCachesSynced) =>
        DeployOutcome.writes = {}

\* a ConfigAnnotator pass has succeeded and nothing changed since: the next writes nothing
ConfigTwiceNoWrite ==
    (last.op = "ConfigSync" /\ ~last.err /\ last.fresh /\ mcaCache = mca) =>
        ConfigOutcome.writes = {}

\* a CSRApprover pass has succeeded and nothing changed since: the next
\* issues no approval update when the review answers as before
CSRTwiceNoWrite ==
    (last.op = "CSRSync" /\ ~last.err) =>
        \A accepted \in BOOLEAN :
            "csr.updateApproval" \notin CSROutcome(last.sar, accepted).writes

\* C12 as stated: for DeployReconciler, ConfigAnnotator and CSRApprover, a
\* reconcile that follows a successful reconcile of the same key with no
\* storage change in between (the listers up to date) issues no write.
C12_SecondPassNoWrite ==
    /\ DeployTwiceNoWrite
    /\ ConfigTwiceNoWrite
    /\ CSRTwiceNoWrite

---------------------------------------------------------------------------
(* Claims about the identity-validity probe *)

\* the identity the claim calls valid, for a manager with this agent name
IdentityValidAsStated(secret, agentName) ==
    /\ secret.exists
    /\ secret.kubeconfig = "set"
    /\ secret.tlsKey = "set"
    /\ secret.tlsCrt.kind = "cert"
    /\ secret.agentName \notin {"nil", ""}
    /\ secret.tlsCrt.cluster = managerClusterName
    /\ secret.tlsCrt.agent = agentName
    /\ secret.tlsCrt.inWindow

\* C13 as stated: the probe answers valid iff the identity secret exists, its
\* kubeconfig, tls.crt, tls.key and agent-name entries are all non-empty, the
\* certificate embeds the manager's (cluster name, agent name) pair and is
\* within its validity window; in every other case it answers invalid.
C13_ProbeValidIff ==
    probed.result # "none" =>
        (probed.result = "valid" <=> IdentityValidAsStated(certSecret, probed.agentName))

---------------------------------------------------------------------------
(* Claims about concurrent CSRApprover passes *)

\* a concurrent pass has just lost the race: its approval update was rejected
LostRace ==
    /\ last.op = "CSRConcurrentUpdate"
    /\ last.lost
    /\ "csr.updateApproval" \in last.writes

\* C14 as stated: the pass that lost the resource-version race on a pending
\* CSR re-reads the CSR from storage, observes the terminal state and writes
\* nothing, whoever won the race: another CSRApprover pass or another approver.
C14_LoserWritesNothing ==
    (LostRace /\ IsCSRInTerminalState(csr)) =>
        \A sar \in SARAnswers, accepted \in BOOLEAN :
            "csr.updateApproval" \notin CSROutcome(sar, accepted).writes

\* the same when the race was won by an approval
C14_LoserAfterApproval ==
    (LostRace /\ isCSRApproved(csr)) =>
        \A sar \in SARAnswers, accepted \in BOOLEAN : CSROutcome(sar, accepted).writes = {}

---------------------------------------------------------------------------
(* Claims about Start and stop of the LeaseRenewer *)

\* C15 as stated: under any interleaving of Start and stop calls, after stop
\* returns no update routine launched by an earlier Start is still running,
\* also when Start was called more than once before; and a stop with no
\* routine running changes nothing.
C15_StopStopsEveryLoop ==
    [][(last'.op = "stop") =>
          /\ loops' = {}
          /\ (loops = {} => (cancel' = cancel /\ renewerLease' = renewerLease))]_vars

---------------------------------------------------------------------------
(* Claims about the apply and the teardown of DeployReconciler *)

\* the pass in the current state gets as far as calling the manifest supplier
ReachesSupplier ==
    /\ managedCluster
    /\ mcaCache.exists /\ ~mcaCache.deleting
    /\ HasFinalizer(mcaCache.finalizers, addonFinalizer)
    /\ cma # "absent"
    /\ ~AddonConfigError

\* C16 as stated: when the manifest supplier returns an error, the reconcile
\* returns an error and neither creates nor updates the delivery envelope.
C16_SupplierErrorReturned ==
    (ReachesSupplier /\ supplier.err) =>
        /\ DeployOutcome.err
        /\ DeployOutcome.writes \cap {"work.create", "work.update"} = {}

---------------------------------------------------------------------------
(* Claims about the chains and the decision of CSRApprover *)

\* C17 as stated: a pending CSR with the cluster-name label, the configured or
\* an empty signer, and a certificate request whose one Organization is the
\* add-on's agent group, whose CommonName starts with it and equals the
\* username, passes the renewal chain and is approved on an affirmative
\* review even when the approve-new chain fails; a terminal CSR never passes
\* the renewal chain.
C17_PendingRenewalApproved ==
    /\ (csr.exists /\ ~IsCSRInTerminalState(csr) /\ isSpokeClusterClientCertRenewal(csr)) =>
           /\ RenewChain(csr)
           /\ CSROutcome("allowed", TRUE).csr.conditions = Append(csr.conditions, AutoApproved)
    /\ (csr.exists /\ IsCSRInTerminalState(csr)) => ~RenewChain(csr)

\* the approve-new chain fails: no check is configured, or one of them rejects
NewChainFails == approveChecks = <<>> \/ \E i \in 1..Len(approveChecks) : ~approveChecks[i]

C18_WitnessDenied ==
    /\ last.op = "CSRSync" /\ ~last.err
    /\ last.writes = {"sar.create"} /\ last.sar = "denied"
    /\ RenewChain(csr)

\* the pass in the current state is a teardown pass
ReachesTeardown == managedCluster /\ mcaCache.exists /\ mcaCache.deleting

\* C19: in teardown, while the lister shows a labelled envelope, the pass
\* deletes it only if it has no deletion timestamp, leaves the add-on and its
\* deploy finalizer as they are and returns an error, also on the pass that
\* issues the delete; the envelope cleanup succeeds only when the list is empty.
C19_TeardownRetries ==
    ReachesTeardown =>
        /\ workCache.exists =>
               /\ DeployOutcome.err
               /\ DeployOutcome.mca = mca
               /\ "addon.update" \notin DeployOutcome.writes
               /\ ("work.delete" \in DeployOutcome.writes) = ~workCache.deleting
               /\ DeployOutcome.work = IF workCache.deleting THEN work ELSE DeletedWork(work)
        /\ ~workCache.exists =>
               /\ "work.delete" \notin DeployOutcome.writes
               /\ DeployOutcome.work = work

\* a teardown pass has just issued the delete and returned an error, the
\* finalizer still on the add-on
C19_Witness ==
    /\ last.op = "DeploySync" /\ last.err
    /\ last.writes = {"work.delete"}
    /\ mca.exists /\ mca.deleting /\ HasFinalizer(mca.finalizers, addonFinalizer)
    /\ work.exists /\ work.deleting

\* the pass in the current state gets as far as applying the envelope
ReachesApply == ReachesSupplier /\ Len(supplier.objs) > 0

\* the stored payload differs from the new one: in length, or in the raw
\* bytes of some manifest at the same index
PayloadDiffers ==
    \/ Len(work.payload) # Len(SupplierPayload)
    \/ \E i \in 1..Len(SupplierPayload) : work.payload[i] # SupplierPayload[i]

\* what the apply writes: create if absent, update iff the payload differs
ApplyWrites ==
    IF ~work.exists THEN {"work.create"}
    ELSE IF PayloadDiffers THEN {"work.update"}
    ELSE {}

---------------------------------------------------------------------------
(* Claims about RegistrationDeployReconciler *)

\* the pass reads the add-on as storage holds it, present and not deleting,
\* and with no call failing it writes nothing and returns nil: the reconciles
\* have converged
RegSettled ==
    /\ regAddonCache = regAddon
    /\ regAddon.exists /\ ~regAddon.deleting
    /\ regEnv.cluster
    /\ RegOutcome("none").writes = {}
    /\ ~RegOutcome("none").err

RegRBACApplied ==
    /\ hub["clusterRole"] /\ hub["clusterRoleBinding"]
    /\ regEnv.rbac => (hub["role"] /\ hub["roleBinding"])

\* C21 as stated: the reconciles of a non-deleted add-on converge to a state
\* where the add-on carries the registration finalizer, the envelope holding
\* the bootstrap secret exists when the bootstrap kubeconfig is non-empty, and
\* the hub cluster-role, cluster-role-binding and the add-on's role and
\* role-binding have been applied, whether the envelope was created, updated
\* or already up to date.
C21_ConvergesWithRBAC ==
    RegSettled =>
        /\ HasFinalizer(regAddon.finalizers, registrationFinalizer)
        /\ regEnv.bootstrap # "none" => regWork = RegistrationWork(regEnv.bootstrap)
        /\ RegRBACApplied

\* (holds) what the converged state does guarantee: the finalizer and the
\* envelope; the hub resources only when the bootstrap kubeconfig is empty
C21_ConvergesWithoutRBAC ==
    RegSettled =>
        /\ HasFinalizer(regAddon.finalizers, registrationFinalizer)
        /\ regEnv.bootstrap # "none" => regWork = RegistrationWork(regEnv.bootstrap)
        /\ regEnv.bootstrap = "none" => RegRBACApplied

\* a converged state reached by the pass that created the envelope
C21_SettledAfterCreate ==
    /\ RegSettled
    /\ last.op = "RegSync" /\ last.writes = {"work.create"}
    /\ ~RegRBACApplied

ReachesRegTeardown ==
    /\ regAddonCache.exists /\ regAddonCache.deleting
    /\ regEnv.cluster

RegAttempted == {"clusterRole", "clusterRoleBinding", "configMap"}
                    \cup (IF regEnv.rbac THEN {"role", "roleBinding"} ELSE {})

\* C22 as stated: on deletion the five hub resources are deleted with NotFound
\* treated as success and the registration finalizer is then removed; with all
\* five already absent the reconcile succeeds and removes the finalizer; any
\* other delete error is returned and leaves the finalizer in place.
C22_TeardownTreatsNotFoundAsSuccess ==
    ReachesRegTeardown =>
        /\ ~UpdateConflicts(regAddonCache, regAddon) =>
              /\ ~RegOutcome("none").err
              /\ ~HasFinalizer(RegOutcome("none").addon.finalizers, registrationFinalizer)
              /\ \A r \in RegAttempted : ~RegOutcome("none").hub[r]
        /\ \A failing \in RegAttempted :
              /\ RegOutcome(failing).err
              /\ RegOutcome(failing).addon = regAddon

\* (holds) what the code does: the pass succeeds and removes the finalizer
\* exactly when the config map was there to delete; a failed delete is
\* returned and keeps the finalizer
C22_TeardownNeedsConfigMap ==
    ReachesRegTeardown =>
        /\ ~UpdateConflicts(regAddonCache, regAddon) => RegOutcome("none").err = ~hub["configMap"]
        /\ ~hub["configMap"] => RegOutcome("none").addon = regAddon
        /\ \A failing \in RegAttempted :
              /\ RegOutcome(failing).err
              /\ RegOutcome(failing).addon = regAddon

\* a teardown pass with all five resources absent has returned an error
C22_AllAbsentFails ==
    /\ last.op = "RegSync" /\ last.err /\ last.fresh
    /\ ReachesRegTeardown
    /\ \A r \in HubResources : ~hub[r]
    /\ last.writes = {r \o ".delete" : r \in RegAttempted}

---------------------------------------------------------------------------
(* Claims about the teardown of DeployReconciler over time *)

\* the add-on in storage is marked for deletion and carries the deploy
\* finalizer; storage can still number the update that removes it
DeployTeardownPending ==
    /\ mca.exists /\ mca.deleting
    /\ HasFinalizer(mca.finalizers, addonFinalizer)
    /\ mca.rv < MaxRV

DeployFinalizerGone == ~(mca.exists /\ HasFinalizer(mca.finalizers, addonFinalizer))

\* C23 as stated: every add-on marked for deletion eventually loses its deploy
\* finalizer, under fair scheduling of the reconciler and of envelope deletion.
C23_EveryDeletedAddonLosesFinalizer == DeployTeardownPending ~> DeployFinalizerGone

\* C23, amended: an add-on marked for deletion eventually loses its deploy
\* finalizer provided its ManagedCluster stays in the reconciler's lister; the
\* reconciler keeps being re-run while labelled envelopes are listed and
\* removes the finalizer once the list is empty.
C23_LosesFinalizerWhileClusterKnown ==
    <>[]managedCluster => (DeployTeardownPending ~> DeployFinalizerGone)

\* the finalizer has just been removed from an add-on marked for deletion by
\* a pass that found no labelled envelope, after an earlier delete
C23_Witness ==
    /\ last.op = "DeploySync" /\ ~last.err /\ last.writes = {"addon.update"}
    /\ ~mca.exists
    /\ mcaCache.exists /\ mcaCache.deleting
    /\ HasFinalizer(mcaCache.finalizers, addonFinalizer)
    /\ ~work.exists

---------------------------------------------------------------------------
(* Claims about the teardown of CertificateManager *)

\* the pass reads an add-on with registration enabled that is being deleted
ReachesCertTeardown ==
    /\ certAddonCache.exists /\ certAddonCache.deleting
    /\ DOMAIN certAddonCache.annotations # {}
    /\ MapValue(certAddonCache.annotations, "enable_registration") # "false"

\* C24 as stated: when CertificateManager observes that an add-on is being
\* deleted it cancels the rotation context saved for the add-on and removes
\* the finalizer addonregistration.open-cluster-management.io; after that
\* reconcile no rotation sub-controller started for the add-on by an earlier
\* reconcile is still running.
C24_TeardownStopsEveryRotation ==
    ReachesCertTeardown =>
        \A start \in StartsFor(certSecret) :
            LET r == CertManagerOutcome(start) IN
            /\ r.managers = {}
            /\ csrControllers # {} => "rotate.stop" \in r.writes
            /\ ~r.err => ~HasFinalizer(r.addon.finalizers, spokeRegistrationFinalizer)
            /\ RotationsAfter(r.writes) = 0

\* (holds) what the teardown pass does: it cancels the one context saved in
\* csrControllers, empties the entry and removes the finalizer
C24_TeardownStopsSavedRotation ==
    ReachesCertTeardown =>
        \A start \in StartsFor(certSecret) :
            LET r == CertManagerOutcome(start) IN
            /\ r.managers = {}
            /\ csrControllers # {} => "rotate.stop" \in r.writes
            /\ ~r.err => ~HasFinalizer(r.addon.finalizers, spokeRegistrationFinalizer)
            /\ RotationsAfter(r.writes) = IF rotations > 0 /\ csrControllers # {}
                                          THEN rotations - 1 ELSE rotations

\* a teardown pass has cancelled the saved context and removed the finalizer,
\* and a rotation sub-controller of an earlier pass is still running
C24_RotationOutlivesTeardown ==
    /\ last.op = "CertManagerSync" /\ ~last.err
    /\ last.writes = {"rotate.stop", "addon.update"}
    /\ csrControllers = {}
    /\ ~(certAddon.exists /\ HasFinalizer(certAddon.finalizers, spokeRegistrationFinalizer))
    /\ rotations > 0

---------------------------------------------------------------------------
(* Claims about the renewer and HubLivenessReconciler together *)

\* the grace period of cluster k as the claims state it, in seconds
StatedGrace(k) == 5 * (IF LeaseDurationSeconds[k] = 0 THEN 60 ELSE LeaseDurationSeconds[k])

\* the renewer's last successful update of the lease of k lies within the
\* grace period (an update that fails leaves the stored lease as it is)
RenewedWithinGrace(k) ==
    /\ hubLease[k].exists
    /\ now - hubLease[k].renewTime < StatedGrace(k)

\* no pass taken in the current state writes a status on an add-on of k
NoPassMarks(k) ==
    \A clusters \in ListOrders(HubClusters), addonOrder \in AddonOrders :
        StatusWrites(HubLeaseOutcome(clusters, addonOrder).writes, k) = {}

\* the state shows that the lease of k has been within the grace period at
\* every instant so far: the lister's copy was written at the first instant,
\* every later renewTime lies between it and the stored one, and both the
\* stored renewTime and the clock are less than a grace period further on
GraceKeptSinceStart(k) ==
    /\ RenewedWithinGrace(k)
    /\ hubLeaseCache[k].exists /\ hubLeaseCache[k].renewTime = 0
    /\ hubLease[k].renewTime - hubLeaseCache[k].renewTime < StatedGrace(k)

---------------------------------------------------------------------------
(* Claims about the worker of CertificateManager and about cancellation *)

\* every queued key is eventually taken by the worker
QueuedKeysReconciled == \A k \in KeyAddons : (k \in certQueue) ~> (k \notin certQueue)

\* every add-on marked for deletion eventually has its finalizer removed
DeletedKeysReleased == \A k \in KeyAddons : keyAddon[k].deleting ~> ~keyAddon[k].exists

\* C26 as stated: a bootstrap phase of add-on A that has not completed does
\* not keep CertificateManager from progress on other keys: while A's
\* reconcile waits for A's identity secret to become valid, a reconcile of
\* another add-on B is still eventually executed, and a deletion of A is
\* still eventually observed and its finalizer removed.
C26_BootstrapBlocksNoKey == QueuedKeysReconciled /\ DeletedKeysReleased

\* (holds) the same progress in the behaviours in which every poll ends
C26_ProgressWhenPollsEnd ==
    []<>(certWorker = Idle) => (QueuedKeysReconciled /\ DeletedKeysReleased)

\* A's reconcile is in the poll while B is queued and A is marked for deletion
C26_WaitingWhileOthersQueued ==
    /\ certWorker = [key |-> "addonA", polling |-> TRUE]
    /\ ~identityValid["addonA"]
    /\ "addonB" \in certQueue /\ keyAddon["addonB"].exists
    /\ keyAddon["addonA"].deleting /\ "addonA" \in certQueue

\* C27 as stated: cancellation of the root context ends every long-running
\* subtask: the lease renewer loop, every bootstrap and rotation
\* sub-controller of every add-on, and a certificate manager reconcile
\* waiting in the bootstrap validity poll all stop.
C27_RootCancelStopsEverything ==
    rootDone =>
        /\ loops = {}
        /\ \A k \in KeyAddons : subControllers[k] = NoSubControllers
        /\ ~certWorker.polling

\* (holds) what the cancellation does end: the update routines and the
\* sub-controllers, which run on contexts derived from the root
C27_RootCancelStopsDerived ==
    rootDone =>
        /\ loops = {}
        /\ \A k \in KeyAddons : subControllers[k] = NoSubControllers

\* the root context was cancelled while a reconcile was in the poll, with an
\* update routine and a rotation sub-controller running: the reconcile is
\* still in the poll
C27_PollOutlivesCancel ==
    /\ last.op = "cancel"
    /\ rootDone
    /\ certWorker.polling
    /\ starts > 0
    /\ registered # {}

---------------------------------------------------------------------------
(* Claims about helpers.UpdateAddonStatus under concurrent callers *)

HoldsCondition(conditions, cond) ==
    /\ cond.type \in DOMAIN conditions
    /\ conditions[cond.type] =
           [status |-> cond.status, reason |-> cond.reason, message |-> cond.message]

\* the condition of every caller that has returned updated = true is in storage
WrittenConditionsRetained ==
    \A w \in StatusWriters :
        (stWriter[w].pc = "out" /\ stWriter[w].updated) =>
            HoldsCondition(stAddon.conditions, stWriter[w].cond)

\* a step that changes the stored status is the update of an attempt whose
\* Get read the stored resourceVersion, and it changes the condition of that
\* caller's type and no other
StatusWriteKeepsOthers ==
    stAddon' # stAddon =>
        \E w \in StatusWriters :
            /\ stWriter[w].pc = "update"
            /\ stWriter[w].read = stAddon
            /\ stWriter'[w].pc = "out" /\ stWriter'[w].updated
            /\ HoldsCondition(stAddon'.conditions, stWriter[w].cond)
            /\ \A t \in DOMAIN stAddon.conditions \ {stWriter[w].cond.type} :
                  t \in DOMAIN stAddon'.conditions
                      /\ stAddon'.conditions[t] = stAddon.conditions[t]

\* an attempt whose new status equals the one read returns updated = false
\* without a write; an attempt refused with a conflict is followed by a Get
StatusAttemptAsStated ==
    \A w \in StatusWriters :
        /\ (stWriter[w].pc = "update" /\ stWriter'[w].pc = "out"
                /\ HoldsCondition(stWriter[w].read.conditions, stWriter[w].cond)) =>
              (stAddon' = stAddon /\ ~stWriter'[w].updated /\ ~stWriter'[w].err)
        /\ (stWriter[w].pc = "update" /\ stWriter'[w].attempts > stWriter[w].attempts) =>
              (stAddon' = stAddon
                  /\ stWriter'[w].pc = IF stWriter'[w].attempts < retrySteps THEN "get" ELSE "out")
        /\ (stWriter[w].pc = "get" /\ stWriter'[w].pc = "update") => stWriter'[w].read = stAddon

\* C28: UpdateAddonStatus reads the add-on from storage on every attempt,
\* applies the update functions to a copy, issues a status update only when
\* the resulting status differs from the one read (updated = false and no
\* write otherwise) and retries on a conflict; concurrent updates of Available
\* by HubLivenessReconciler and of Degraded by AddonLeaseObserver are both
\* retained, neither write overwrites the other's condition.
C28_ConcurrentConditionsRetained ==
    /\ []WrittenConditionsRetained
    /\ [][StatusWriteKeepsOthers /\ StatusAttemptAsStated]_vars

\* both reconcilers have written their condition, the hub after a conflict
\* with the observer's write, and storage holds both
C28_Witness ==
    /\ \A w \in StatusWriters : stWriter[w].pc = "out" /\ stWriter[w].updated
    /\ stWriter["hub"].attempts > 0
    /\ HoldsCondition(stAddon.conditions, AvailableUnknown)
    /\ HoldsCondition(stAddon.conditions, stWriter["observer"].cond)
    /\ last.op = "status.attempt"

---------------------------------------------------------------------------
(* Claims about the grace period of HubLivenessReconciler *)

\* now < renewTime + 5 x leaseDurationSeconds, with 60 for an unset value, in
\* unbounded arithmetic: for integers e < 5 s is the same as e \div 5 < s
StatedHealthy(c) ==
    (c.now - c.renewTime) \div 5 < (IF c.seconds = 0 THEN 60 ELSE c.seconds)

\* C29 as stated: a cluster is healthy exactly when
\* now < renewTime + gracePeriod, with gracePeriod = 5 x leaseDurationSeconds
\* seconds and leaseDurationSeconds taken as 60 when 0 or unset; at
\* now = renewTime + gracePeriod the lease is stale; the grace period is
\* 5 x leaseDurationSeconds for every positive value of the 32-bit field.
C29_GraceIsFiveTimesDuration ==
    graceCheck.called => (graceCheck.healthy = StatedHealthy(graceCheck))

\* (holds) the same for lease durations up to 429496729 seconds, the largest
\* whose fivefold fits 31 bits
C29_GraceWithinInt32 ==
    (graceCheck.called /\ graceCheck.seconds <= 429496729) =>
        (graceCheck.healthy = StatedHealthy(graceCheck))

\* a lease renewed this very second is judged stale for a lease duration of
\* 429496730 seconds
C29_FreshLeaseJudgedStale ==
    /\ graceCheck.called
    /\ graceCheck.seconds = 429496730
    /\ graceCheck.now = graceCheck.renewTime
    /\ ~graceCheck.healthy

---------------------------------------------------------------------------
(* Claims about the annotations written by ConfigAnnotator *)

\* the pass reads the add-on and its cluster and gets the bootstrap answer
ReachesMerge ==
    /\ annotator.constructed
    /\ mcaCache.exists
    /\ managedCluster
    /\ annotator.bootstrap # "error"

\* what the pass leaves in the annotations of its copy of the add-on
MergedAnnotations == MergeMap(mcaCache.annotations, annotationData(annotator))

\* all of the merge but the value of signer
MergeAsStatedButSigner ==
    /\ annotator.enableRegistration =>
          /\ MapValue(MergedAnnotations, "installNamespace") = addonInstallNamespace
          /\ MapValue(MergedAnnotations, "enable_registration") = "true"
    /\ ~annotator.enableRegistration =>
          MapValue(MergedAnnotations, "enable_registration") = "false"
    /\ ("bootstrapSecret" \in DOMAIN annotationData(annotator)) = (annotator.bootstrap = "data")
    /\ annotator.bootstrap = "data" =>
          MapValue(MergedAnnotations, "bootstrapSecret") = "testaddon-bootstrap-kubeconfig"
    /\ \A k \in DOMAIN mcaCache.annotations \ DOMAIN annotationData(annotator) :
          MergedAnnotations[k] = mcaCache.annotations[k]
    /\ (ConfigOutcome.writes = {}) = (MergedAnnotations = mcaCache.annotations)
    /\ (ConfigOutcome.writes # {} /\ ~ConfigOutcome.err /\ ConfigOutcome.mca.exists) =>
          /\ ConfigOutcome.mca.annotations = MergedAnnotations
          /\ ConfigOutcome.mca.finalizers = mcaCache.finalizers
          /\ ConfigOutcome.mca.deleting = mcaCache.deleting

\* C30 as stated: with registration enabled the merge sets signer to the
\* signer name of the registration config, installNamespace to the add-on
\* install namespace and enable_registration to "true"; with registration
\* disabled enable_registration to "false"; bootstrapSecret to
\* <add-on>-bootstrap-kubeconfig when the bootstrap kubeconfig is non-empty;
\* every other annotation and the finalizers stay, and an update is issued
\* only if the merge changed a value.
C30_AnnotationsAsStated ==
    ReachesMerge =>
        /\ MergeAsStatedButSigner
        /\ annotator.enableRegistration =>
              MapValue(MergedAnnotations, "signer") = KubeAPIServerClientSignerName

\* (holds) the merge as the code performs it: signer is the empty string
C30_SignerAnnotationEmpty ==
    ReachesMerge =>
        /\ MergeAsStatedButSigner
        /\ annotator.enableRegistration =>
              ("signer" \in DOMAIN MergedAnnotations /\ MergedAnnotations["signer"] = "")

\* a pass with registration enabled has written the annotations, signer empty
C30_EmptySignerWritten ==
    /\ last.op = "ConfigSync" /\ ~last.err /\ last.writes = {"addon.update"}
    /\ annotator.enableRegistration
    /\ mca.exists
    /\ "signer" \in DOMAIN mca.annotations /\ mca.annotations["signer"] = ""
    /\ MapValue(mca.annotations, "enable_registration") = "true"

---------------------------------------------------------------------------
(* Claims about ManagedClusterReconciler (checked under SpecCluster) *)

\* the pass with this failure removes the finalizer from the stored cluster
ClusterFinalizerRemovedBy(failing) ==
    LET r == ClusterOutcome(failing) IN
    /\ mcCache.exists /\ mcCache.deleting
    /\ HasFinalizer(mcCache.finalizers, managedClusterFinalizer)
    /\ "cluster.update" \in r.writes /\ ~r.err

\* a pass over a cluster that is not being deleted: first the finalizer and
\* nothing else, the namespace and the RBAC in a later pass
ClusterAdmissionStaged ==
    \A failing \in ClusterFailures :
        LET r == ClusterOutcome(failing) IN
        (mcCache.exists /\ ~mcCache.deleting) =>
            IF HasFinalizer(mcCache.finalizers, managedClusterFinalizer)
            THEN /\ r.mc = mc
                 /\ "cluster.update" \notin r.writes
                 /\ failing \notin ClusterResources =>
                       \A x \in ClusterResources : r.rbac[x]
            ELSE /\ r.writes = {"cluster.update"}
                 /\ r.rbac = clusterRBAC
                 /\ ~r.err =>
                       r.mc.finalizers = Append(mcCache.finalizers, managedClusterFinalizer)

\* a delete that fails with an error other than NotFound leaves the finalizer
ClusterDeleteErrorKeepsFinalizer ==
    \A failing \in ClusterFailures :
        LET r == ClusterOutcome(failing) IN
        (mcCache.exists /\ mcCache.deleting /\ removeManagedClusterResources(failing).err) =>
            /\ r.mc = mc
            /\ "cluster.update" \notin r.writes

\* C31 as stated: for a ManagedCluster that is not being deleted the pass
\* first adds the finalizer and applies the namespace and the cluster-scoped
\* RBAC only in a later pass; for one being deleted it removes the finalizer
\* only after both the ClusterRole and the ClusterRoleBinding have been
\* deleted or found absent, and a delete error other than NotFound leaves
\* the finalizer in place.
C31_FinalizerOnlyAfterBothDeleted ==
    /\ ClusterAdmissionStaged
    /\ ClusterDeleteErrorKeepsFinalizer
    /\ \A failing \in ClusterFailures :
          ClusterFinalizerRemovedBy(failing) =>
              LET r == ClusterOutcome(failing) IN
              ~r.rbac["clusterRole"] /\ ~r.rbac["clusterRoleBinding"]

\* (holds) the finalizer goes once the ClusterRole is deleted or absent; the
\* ClusterRoleBinding is deleted only by a pass that found the ClusterRole absent
C31_FinalizerAfterRoleDeleted ==
    /\ ClusterAdmissionStaged
    /\ ClusterDeleteErrorKeepsFinalizer
    /\ \A failing \in ClusterFailures :
          LET r == ClusterOutcome(failing) IN
          /\ ClusterFinalizerRemovedBy(failing) =>
                /\ ~r.rbac["clusterRole"]
                /\ r.rbac["clusterRoleBinding"] =
                      (clusterRBAC["clusterRole"] /\ clusterRBAC["clusterRoleBinding"])
          /\ (mcCache.exists /\ mcCache.deleting /\ clusterRBAC["clusterRole"]) =>
                "clusterRoleBinding.delete" \notin r.writes

\* a teardown pass has removed the finalizer and the cluster is gone while
\* its ClusterRoleBinding is still stored
C31_BindingOutlivesCluster ==
    /\ last.op = "ClusterSync" /\ ~last.err
    /\ last.writes = {"clusterRole.delete", "cluster.update"}
    /\ ~mc.exists
    /\ ~clusterRBAC["clusterRole"]
    /\ clusterRBAC["clusterRoleBinding"]

---------------------------------------------------------------------------
(* Claims about the delivery envelopes of both deploy reconcilers *)

\* the stored work addon-<add-on>-deploy has the owner reference and the label
DeployEnvelopeLinked == work.exists => (work.owner /\ work.label = addonName)

\* the stored work addon-<add-on>-registration-agent has them
RegistrationEnvelopeLinked == regWork.exists => (regWork.owner /\ regWork.label = addonName)

\* C32 as stated: every delivery envelope written by DeployReconciler
\* (addon-<add-on>-deploy) or by RegistrationDeployReconciler
\* (addon-<add-on>-registration-agent) carries both an owner reference to its
\* ManagedClusterAddOn and the label linking it to the add-on.
C32_EnvelopesOwnedAndLabelled ==
    DeployEnvelopeLinked /\ RegistrationEnvelopeLinked

\* C32 for the registration envelope alone
C32_RegistrationEnvelopeLabelled == RegistrationEnvelopeLinked

\* (holds) the deploy envelope carries the label and no owner reference
C32_DeployEnvelopeLabelOnly ==
    /\ work.exists => (~work.owner /\ work.label = addonName)
    /\ \A supplied \in SupplierResults :
          LET w == buildManifestWorkFromObject(supplied.objs) IN
          w.exists => (~w.owner /\ w.label = addonName)

\* (holds) the registration envelope carries the owner reference and no label
C32_RegistrationEnvelopeOwnerOnly ==
    regWork.exists => (regWork.owner /\ regWork.label = "")

\* a pass has created the deploy envelope, which has no owner reference
C32_DeployEnvelopeWithoutOwner ==
    /\ last.op = "DeploySync" /\ "work.create" \in last.writes
    /\ work.exists /\ ~work.owner /\ work.label = addonName

\* a pass has written the registration envelope, which has no label
C32_RegistrationEnvelopeWithoutLabel ==
    /\ last.op = "RegSync" /\ ~last.err
    /\ regWork.exists /\ regWork.owner /\ regWork.label = ""

---------------------------------------------------------------------------
(* Claims about ClusterManagementReconciler (checked under SpecClusterManagement) *)

\* C33: the pass creates the ClusterManagementAddOn named after the add-on,
\* with the empty spec, iff its lister shows none, and issues no write when
\* the lister shows one; it never updates or deletes the object; a pass that
\* read a lister equal to storage and returned no error leaves the object
\* stored; a create issued while the lister lagged behind a stored object is
\* returned as an error and changes nothing.
C33_SingletonEnsured ==
    /\ \A failing \in ClusterManagementFailures :
          LET r == ClusterManagementOutcome(failing) IN
          /\ (r.writes = {"clustermanagement.create"}) = ~cmAddOnCache.exists
          /\ cmAddOnCache.exists => (r.writes = {} /\ ~r.err /\ r.obj = cmAddOn)
          /\ r.obj # cmAddOn =>
                /\ ~cmAddOn.exists /\ ~r.err
                /\ r.obj = [exists |-> TRUE, spec |-> "empty", rv |-> cmAddOn.rv + 1]
          /\ (~cmAddOnCache.exists /\ cmAddOn.exists) => (r.err /\ r.obj = cmAddOn)
          /\ (~cmAddOnCache.exists /\ ~cmAddOn.exists /\ failing = "none") =>
                (~r.err /\ r.obj.exists /\ r.obj.spec = "empty")
    /\ (last.op = "ClusterManagementSync" /\ ~last.err /\ last.fresh) => cmAddOn.exists

\* a pass has created the object with the empty spec
C33_Witness ==
    /\ last.op = "ClusterManagementSync" /\ ~last.err
    /\ last.writes = {"clustermanagement.create"}
    /\ cmAddOn = [exists |-> TRUE, spec |-> "empty", rv |-> 1]
    /\ ~cmAddOnCache.exists

\* a pass over a lagging lister has issued a create, got the error and left
\* the object somebody else configured as it was
C33_LaggingCreateRejected ==
    /\ last.op = "ClusterManagementSync" /\ last.err /\ ~last.fresh
    /\ last.writes = {"clustermanagement.create"}
    /\ cmAddOn.exists /\ cmAddOn.spec = "configured"
    /\ ~cmAddOnCache.exists

---------------------------------------------------------------------------
(* Claims about the writers of one ManagedClusterAddOn (checked under SpecShared) *)

\* what a successful update by the owner of finalizer f may change: only f
\* among the finalizers, the others kept in their order, and no annotation
KeepsOthers(f, after) ==
    IF after.exists
    THEN /\ WithoutFinalizer(after.finalizers, f) = WithoutFinalizer(shAddon.finalizers, f)
         /\ after.annotations = shAddon.annotations
         /\ after.deleting = shAddon.deleting
    ELSE shAddon.deleting /\ WithoutFinalizer(shAddon.finalizers, f) = <<>>

\* no pass of any writer, from its informer's copy however stale, drops or
\* reorders what another writer put
NoWriterClobbers ==
    /\ \A w \in FinalizerWriters, failing \in SharedFailures :
          LET r == FinalizerOutcome(w, failing) IN
          /\ r.err => r.addon = shAddon
          /\ r.addon # shAddon =>
                /\ ~UpdateConflicts(shCache[InformerOf(w)], shAddon)
                /\ KeepsOthers(OwnFinalizer(w), r.addon)
                /\ shAddon.deleting = ~(r.addon.exists
                                        /\ HasFinalizer(r.addon.finalizers, OwnFinalizer(w)))
    /\ \A failing \in SharedFailures :
          LET r == AnnotationOutcome(failing) IN
          /\ r.err => r.addon = shAddon
          /\ r.addon # shAddon =>
                /\ r.addon.exists
                /\ r.addon.finalizers = shAddon.finalizers
                /\ r.addon.deleting = shAddon.deleting
                /\ r.addon.annotations = MergeMap(shAddon.annotations, SharedAnnotationData)

AllFinalizersPresent ==
    \A w \in FinalizerWriters : HasFinalizer(shAddon.finalizers, OwnFinalizer(w))

\* (holds) C34 for one add-on whose writers' passes all keep being run: no
\* successful update drops a finalizer put by another writer, each removal
\* removes only the writer's own finalizer and keeps the others in order,
\* and an add-on that is not deleted eventually carries all three finalizers
C34_NoClobberWhenAllWritersRun ==
    /\ []NoWriterClobbers
    /\ (shAddon.exists /\ ~shAddon.deleting)
          ~> (AllFinalizersPresent \/ ~shAddon.exists \/ shAddon.deleting)

\* all four writers have written, one of them after a conflict on a stale
\* copy: the three finalizers follow the other owner's, annotations merged
C34_AllWritersWrote ==
    /\ shAddon.exists /\ ~shAddon.deleting
    /\ Len(shAddon.finalizers) = 4 /\ shAddon.finalizers[1] = "other"
    /\ AllFinalizersPresent
    /\ shAddon.annotations = SharedAnnotationData
    /\ shCache["spokeInformer"].exists /\ shCache["spokeInformer"].rv < shAddon.rv

\* a pass on a stale copy has been refused: nothing written
C34_StaleUpdateRefused ==
    /\ last.op \in FinalizerWriters /\ last.err /\ ~last.fresh
    /\ last.writes = {"addon.update"}
    /\ shAddon.exists /\ Len(shAddon.finalizers) >= 2

\* the add-ons of the spoke's work queue that are not deleted eventually
\* carry the certificate manager's finalizer
SpokeFinalizerEventuallyPresent ==
    \A k \in KeyAddons :
        (keyAddon[k].exists /\ ~keyAddon[k].deleting)
            ~> (keyAddon[k].finalizer \/ ~keyAddon[k].exists \/ keyAddon[k].deleting)

\* C34 as stated: when DeployReconciler, RegistrationDeployReconciler and the
\* spoke CertificateManager add or remove their finalizers and ConfigAnnotator
\* updates annotations concurrently, each from a possibly stale copy, no
\* successful update drops a finalizer put by another reconciler, each
\* removal removes only the reconciler's own finalizer and preserves the
\* others in order, and eventually all required finalizers are present on a
\* non-deleted add-on.
C34_FinalizersNeverClobbered ==
    /\ []NoWriterClobbers
    /\ SpokeFinalizerEventuallyPresent

\* (holds) the same in the behaviours in which every poll ends
C34_SpokeFinalizerWhenPollsEnd ==
    []<>(certWorker = Idle) => SpokeFinalizerEventuallyPresent

\* add-on B has no finalizer yet and is queued while the worker is in the poll of A
C34_FinalizerWaitsBehindPoll ==
    /\ certWorker = [key |-> "addonA", polling |-> TRUE]
    /\ ~identityValid["addonA"]
    /\ keyAddon["addonB"].exists /\ ~keyAddon["addonB"].deleting /\ ~keyAddon["addonB"].finalizer
    /\ "addonB" \in certQueue

---------------------------------------------------------------------------
(* Claims about the condition each liveness reconciler writes *)

\* after differs from before at most in its condition of the given type
OnlyConditionChanged(before, after, type) ==
    /\ after.exists = before.exists
    /\ \A t \in (DOMAIN before.conditions \cup DOMAIN after.conditions) \ {type} :
          /\ t \in DOMAIN before.conditions /\ t \in DOMAIN after.conditions
          /\ after.conditions[t] = before.conditions[t]

\* HubLivenessReconciler changes only Available and only to Unknown
HubWritesOnlyAvailableUnknown ==
    \A clusters \in ListOrders(HubClusters), addonOrder \in AddonOrders :
        LET r == HubLeaseOutcome(clusters, addonOrder) IN
        \A k \in HubClusters, a \in HubAddons :
            r.addon[k][a] # hubAddon[k][a] =>
                /\ OnlyConditionChanged(hubAddon[k][a], r.addon[k][a], "Available")
                /\ r.addon[k][a].conditions["Available"].status = "Unknown"

\* the observer that finds leases by label changes only Degraded
LabelObserverWritesOnlyDegraded ==
    \A addons \in ListOrders(spokeAddonCache), slotOrder \in SlotOrders :
        LET r == AddonLeaseOutcome(addons, slotOrder) IN
        \A a \in SpokeAddons :
            r.addon[a] # spokeAddon[a] =>
                OnlyConditionChanged(spokeAddon[a], r.addon[a], "Degraded")

\* the observer that finds leases by annotation changes only the given type
AnnotationObserverWritesOnly(type) ==
    \A addons \in ListOrders(ListedAddons) :
        LET r == AnnotatedLeaseOutcome(addons) IN
        /\ \A w \in r.writes : w[3] = type
        /\ \A a \in SpokeAddons :
              r.addon[a] # annAddon[a] => OnlyConditionChanged(annAddon[a], r.addon[a], type)

\* C35 as stated: HubLivenessReconciler only ever writes the Available
\* condition and only with status Unknown, the spoke AddonLeaseObserver only
\* ever writes the Degraded condition, and neither changes the other
\* condition type; the hub never marks an add-on Available = True or False
\* and the spoke never changes Available.
C35_EachWritesItsOwnCondition ==
    /\ HubWritesOnlyAvailableUnknown
    /\ LabelObserverWritesOnlyDegraded
    /\ AnnotationObserverWritesOnly("Degraded")

\* (holds under SpecHubLease) the hub's part
C35_HubOnlyAvailableUnknown == HubWritesOnlyAvailableUnknown

\* (holds under SpecAddonLease) the part of the observer that finds leases by label
C35_LabelObserverOnlyDegraded == LabelObserverWritesOnlyDegraded

\* (holds) the observer that finds leases by annotation writes Available, True or False
C35_AnnotationObserverWritesAvailable ==
    /\ AnnotationObserverWritesOnly("Available")
    /\ \A addons \in ListOrders(ListedAddons) :
          LET r == AnnotatedLeaseOutcome(addons) IN
          \A a \in SpokeAddons :
              r.addon[a] # annAddon[a] =>
                  r.addon[a].conditions["Available"].status \in {"True", "False"}

\* a pass of that observer has set Available = True on an add-on
C35_SpokeWroteAvailable ==
    /\ last.op = "AnnotatedLeaseSync" /\ ~last.err
    /\ \E a \in SpokeAddons :
          /\ <<"addon.updateStatus", a, "Available">> \in last.writes
          /\ annAddon[a].exists
          /\ "Available" \in DOMAIN annAddon[a].conditions
          /\ annAddon[a].conditions["Available"].status = "True"
          /\ "Degraded" \notin DOMAIN annAddon[a].conditions

---------------------------------------------------------------------------
(* Claims about the add-ons one AddonLeaseObserver pass evaluates *)

\* a pass of the observer that finds leases by label, unless an update of
\* the status failed, comes to every listed add-on and leaves it a condition
LabelObserverEvaluatesAll ==
    \A addons \in ListOrders(spokeAddonCache), slotOrder \in SlotOrders :
        LET r == AddonLeaseOutcome(addons, slotOrder) IN
        ~r.err =>
            \A a \in spokeAddonCache :
                /\ \E i \in DOMAIN r.actions : r.actions[i] = <<"get", a>>
                /\ "Degraded" \in DOMAIN r.addon[a].conditions

\* the same of the observer that finds leases by annotation
AnnotationObserverEvaluatesAll ==
    \A addons \in ListOrders(ListedAddons) :
        LET r == AnnotatedLeaseOutcome(addons) IN
        ~r.err =>
            /\ r.reached = ListedAddons
            /\ \A a \in ListedAddons : "Available" \in DOMAIN r.addon[a].conditions

\* C36 as stated: in every AddonLeaseObserver pass a condition is derived for
\* every add-on in the cluster's namespace: an add-on for which no lease can
\* be located, or which has no install-namespace annotation, does not stop
\* the evaluation of the remaining add-ons in the same pass.
C36_EveryAddonEvaluated ==
    /\ LabelObserverEvaluatesAll
    /\ AnnotationObserverEvaluatesAll

\* (holds under SpecAddonLease) the observer that finds leases by label
C36_LabelObserverEvaluatesAll == LabelObserverEvaluatesAll

\* (holds) the observer that finds leases by annotation evaluates the add-ons
\* listed before the first one without an install namespace, and all of them
\* when there is none; a lease that is not found stops nothing
C36_AnnotationObserverStopsAtUnannotated ==
    \A addons \in ListOrders(ListedAddons) :
        LET r == AnnotatedLeaseOutcome(addons) IN
        ~r.err =>
            /\ (\A a \in ListedAddons : annListed[a].installNamespace # "") =>
                  /\ r.reached = ListedAddons
                  /\ \A a \in ListedAddons : "Available" \in DOMAIN r.addon[a].conditions
            /\ \A i \in DOMAIN addons :
                  (addons[i] \in r.reached) =
                      (\A j \in 1..(i - 1) : annListed[addons[j]].installNamespace # "")

\* a pass has returned without error at an add-on without annotation and
\* left an annotated add-on, whose lease is listed, without any condition
C36_AddonLeftUnevaluated ==
    /\ last.op = "AnnotatedLeaseSync" /\ ~last.err
    /\ last.listed = SpokeAddons
    /\ \E a \in SpokeAddons :
          /\ a \notin last.reached
          /\ annListed[a].installNamespace = "ns1" /\ annLease[a].exists
          /\ annAddon[a].exists /\ annAddon[a].conditions = NoConditions

---------------------------------------------------------------------------
(* Claims about the approve-new chain of CSRApprover *)

\* every configured check returns true for the CSR, and there is one
EveryCheckPasses == Len(approveChecks) > 0 /\ \A i \in 1..Len(approveChecks) : approveChecks[i]

C37_OneCheckFails ==
    /\ last.op = "CSRSync" /\ ~last.err /\ last.writes = {}
    /\ csr.exists /\ csr.conditions = <<>>
    /\ approveChecks = <<TRUE, FALSE>>

---------------------------------------------------------------------------
(* Claims about the event filter of CSRApprover *)

\* the pass that has just run found a CSR created for another add-on
ForeignCSRReconciled ==
    /\ last.op = "NamedCSRSync"
    /\ last.found
    /\ last.addon # approverAddon

\* the name built for add-on b on the cluster begins like the names of add-on a
NameBeginsLike(b, cluster, a) == HasPrefix(b \o Hyphen \o cluster \o Hyphen, a \o Hyphen)

\* C38: a CSRApprover configured for add-on A never reconciles, and so never
\* approves, a CSR created for a different add-on B, also when A's name
\* followed by a hyphen is a prefix of B's name.
C38_ForeignCSRNeverReconciled ==
    /\ ~ForeignCSRReconciled
    /\ (namedCSR.exists /\ namedCSR.addon # approverAddon) =>
          /\ namedCSR.name \notin csrKeys
          /\ ~namedCSR.approved

\* (holds) a name is queued only when it begins with addon-<A>-, and a CSR of
\* another add-on is reconciled or approved only when the name built from
\* that add-on and its cluster begins with <A>-
C38_ReconciledOnlyByNamePrefix ==
    /\ \A key \in csrKeys : CSRFilter(key, approverAddon)
    /\ ForeignCSRReconciled => NameBeginsLike(last.addon, last.cluster, approverAddon)
    /\ (namedCSR.approved /\ namedCSR.addon # approverAddon) =>
          NameBeginsLike(namedCSR.addon, namedCSR.cluster, approverAddon)

\* the approver of foo has approved the CSR of foo-bar
C38_ForeignCSRApproved ==
    /\ approverAddon = <<"foo">>
    /\ namedCSR.exists /\ namedCSR.approved
    /\ namedCSR.addon = <<"foo", "-", "bar">>
    /\ last.op = "NamedCSRSync" /\ last.writes = {"csr.updateApproval"} /\ ~last.err

\* the approver of foo has let the CSR of foobar pass unqueued
C38_UnrelatedCSRFiltered ==
    /\ approverAddon = <<"foo">>
    /\ namedCSR.exists /\ namedCSR.delivered
    /\ namedCSR.addon = <<"foobar">>
    /\ csrKeys = {}

---------------------------------------------------------------------------
(* Claims about the renewer the spoke process starts *)

\* the wait between the last two calls of update
LastWait == spokeCalls[2] - spokeCalls[1]

StartedOnAddonLease ==
    /\ spokeUpdater.cluster = clusterName
    /\ spokeUpdater.leaseName = "addon-lease"

\* C39: the spoke process starts its renewer on the lease (cluster name,
\* addon-lease) with a renewal period equal to the default lease duration of
\* 60 seconds, jittered by at most 25%, so that the hub's grace period of
\* 5 x 60 s spans several renewal ticks.
C39_RenewerPeriodIsSixtySeconds ==
    spokeUpdater.started =>
        /\ StartedOnAddonLease
        /\ WholeSeconds(spokeUpdater.leaseDuration) = AddonLeaseDurationSeconds
        /\ spokeUpdater.leaseDuration % Second = 0
        /\ Len(spokeCalls) = 2 =>
              /\ WholeSeconds(LastWait) >= AddonLeaseDurationSeconds
              /\ SecondsCeil(LastWait) <= AddonLeaseDurationSeconds + AddonLeaseDurationSeconds \div 4
        /\ 2 * SecondsCeil(spokeUpdater.leaseDuration + spokeUpdater.leaseDuration \div 4)
              <= leaseDurationTimes * AddonLeaseDurationSeconds

\* (holds) the renewer is started on (cluster name, addon-lease) and the
\* grace period spans more than one wait
C39_RenewerOnAddonLease ==
    spokeUpdater.started =>
        /\ StartedOnAddonLease
        /\ 2 * SecondsCeil(spokeUpdater.leaseDuration + spokeUpdater.leaseDuration \div 4)
              <= leaseDurationTimes * AddonLeaseDurationSeconds

\* (holds) the period is 60 nanoseconds, jittered by at most 25%
C39_RenewerPeriodIsSixtyNanoseconds ==
    spokeUpdater.started =>
        /\ spokeUpdater.leaseDuration = AddonLeaseDurationSeconds
        /\ WholeSeconds(spokeUpdater.leaseDuration) = 0
        /\ Len(spokeCalls) = 2 =>
              /\ LastWait >= AddonLeaseDurationSeconds
              /\ LastWait <= AddonLeaseDurationSeconds + AddonLeaseDurationSeconds \div 4

\* the lease has been renewed by a second call less than a microsecond
\* after the first
C39_SecondRenewalWithinMicrosecond ==
    /\ last.op = "SpokeUpdate" /\ ~last.err
    /\ Len(spokeCalls) = 2
    /\ spokeCalls[1] = 0
    /\ LastWait < 1000
    /\ spokeLease.renewTime = spokeCalls[2]

====
